---- MODULE Spec2Model ----
\* Model of the synthetic data generator of opensearch-benchmark:
\*   - the size-bounded dataset writer loop shared by
\*     generate_dataset_with_mappings (mapping_synthetic_data_generator.py)
\*     and generate_dataset_with_user_module (synthetic_data_generator.py);
\*   - TimeSeriesPartitioner.generate_windows (timeseries_partitioner.py).
\* Sizes are in bytes; the GB factors of the source are inputs here
\* (total_size_bytes and max_file_size_bytes are drawn directly).
EXTENDS Integers, Sequences, FiniteSets, TLC

\* ---------------------------------------------------------------- bounds
MaxWorkers == 2
MaxChunkSize == 2
MaxDocSize == 2
MaxTotal == 4
MaxFileSize == 3
\* One round adds at least one byte to current_size, so no run with
\* max_file_size_bytes >= 1 opens more than total_size_bytes files; file
\* indexes are counted up to MaxFiles and not told apart beyond it (only a
\* run that writes nothing gets there).
MaxFiles == MaxTotal + 1

\* A document is modelled by the byte length of its JSON line; 0 stands
\* for a document json.dumps cannot serialise (it raises TypeError).
Unserializable == 0
DocSizes == 1..MaxDocSize
Docs == DocSizes \cup {Unserializable}

VARIABLES
    \* ---- dataset writer
    total_size_bytes,     \* sdg_config.total_size_gb * 1024^3
    max_file_size_bytes,  \* max_file_size_gb * 1024^3
    chunk_size,
    workers,              \* number of Dask workers (len(seeds))
    avg_document_size,
    current_size,
    docs_written,
    file_counter,
    file_size,
    files,                \* output directory: file index -> on-disk bytes
    futures,              \* worker -> "idle" | "pending" | "finished" | "error"
    chunks,               \* worker -> documents its task returned
    results,              \* gathered list the coordinator iterates over
    wi,                   \* position of the write loop in results
    di,                   \* position of write_chunk in the chunk
    pc,                   \* position of the coordinating path
    error,                \* exception that left the call, or "none"
    undersized            \* some document written was shorter than the sample

wvars == <<total_size_bytes, max_file_size_bytes, chunk_size, workers,
           avg_document_size, current_size, docs_written, file_counter,
           file_size, files, futures, chunks, results, wi, di, pc, error,
           undersized>>

\* ---- TimeSeriesPartitioner (total_size_bytes, avg_document_size and
\* workers above are also its constructor arguments)
VARIABLES
    start_date,           \* timeseries_start_date, as a day number
    end_date,             \* timeseries_end_date, as a day number
    frequency,            \* self.frequency
    docs_per_chunk,
    datetimeindex,        \* the timestamp grid, ascending ticks
    frequencies_to_try,
    frequency_tried,      \* the local "frequency" of the refinement loop
    datetime_windows,
    ts_pc,                \* position inside generate_windows
    ts_error              \* exception that left generate_windows, or "none"

tvars == <<start_date, end_date, frequency, docs_per_chunk, datetimeindex,
           frequencies_to_try, frequency_tried, datetime_windows, ts_pc,
           ts_error>>

\* ---- TimeSeriesPartitioner: the configured format and one call of the
\* static generate_datetimestamps_from_window
VARIABLES
    format,               \* self.format
    gen_window,           \* argument window
    gen_frequency,        \* argument frequency
    gen_format,           \* argument format
    generated_datetimestamps,
    gen_pc,               \* "idle" | "returned" | "raised"
    gen_error

gvars == <<format, gen_window, gen_frequency, gen_format,
           generated_datetimestamps, gen_pc, gen_error>>

GIdle ==
    /\ format = "%Y-%m-%dT%H:%M:%S"
    /\ gen_window = << >>
    /\ gen_frequency = "min"
    /\ gen_format = "%Y-%m-%dT%H:%M:%S"
    /\ generated_datetimestamps = << >>
    /\ gen_pc = "idle"
    /\ gen_error = "none"

\* ---- MappingParser and MappingSyntheticDataGenerator
VARIABLES
    input_data,           \* the mapping (or index template) document
    parsed,               \* MappingParser.parse(input_data)
    parse_error,
    reparsed,             \* MappingParser.parse(parsed)
    reparse_error,
    m_pc,                 \* "input" | "parsed" | "raised" | "reparsed" | "reraised"
    mapping_config,
    generator_dict,       \* transform_mapping_to_generators(input_data)
    h_error,
    document,             \* generate_fake_document(generator_dict)
    h_pc                  \* "input" | "hydrated" | "raised" | "generated"

mvars == <<input_data, parsed, parse_error, reparsed, reparse_error, m_pc,
           mapping_config, generator_dict, h_error, document, h_pc>>

\* an empty dict
EmptyDict == [k \in {} |-> 0]

MIdle ==
    /\ input_data = EmptyDict
    /\ parsed = EmptyDict
    /\ parse_error = "none"
    /\ reparsed = EmptyDict
    /\ reparse_error = "none"
    /\ m_pc = "unused"
    /\ mapping_config = EmptyDict
    /\ generator_dict = EmptyDict
    /\ h_error = "none"
    /\ document = EmptyDict
    /\ h_pc = "unused"

\* ---- TemplateDocumentParser
VARIABLES
    template_value,       \* the value of one field of the template document
    parsed_template,      \* the entry parse() stores for the field
    template_error,
    tp_pc                 \* "input" | "parsed" | "raised"

pvars == <<template_value, parsed_template, template_error, tp_pc>>

PIdle ==
    /\ template_value = << >>
    /\ parsed_template = EmptyDict
    /\ template_error = "none"
    /\ tp_pc = "unused"

\* ---- range generators
VARIABLES
    range_generator,      \* the generator class that ran
    range_kwargs,         \* the keyword arguments of the call
    range_value,          \* its return value
    range_error,
    r_pc                  \* "idle" | "returned" | "raised"

rvars == <<range_generator, range_kwargs, range_value, range_error, r_pc>>

RIdle ==
    /\ range_generator = "none"
    /\ range_kwargs = EmptyDict
    /\ range_value = EmptyDict
    /\ range_error = "none"
    /\ r_pc = "unused"

xvars == <<mvars, pvars, rvars>>

\* ---- get_generation_settings
VARIABLES
    default_generation_settings,  \* the module-level DEFAULT_GENERATION_SETTINGS
    input_config,                 \* the config of the latest call
    generation_settings,          \* what the latest call returned
    s_pc                          \* "ready" | "returned"

svars == <<default_generation_settings, input_config, generation_settings, s_pc>>

SIdle ==
    /\ default_generation_settings = EmptyDict
    /\ input_config = EmptyDict
    /\ generation_settings = EmptyDict
    /\ s_pc = "unused"

\* ---- the value generators and the hydration with a config
VARIABLES
    v_call,        \* the latest direct call: the generator and its keyword parameters
    v_value,       \* what that call returned
    v_error,       \* "none" or the exception a call raised
    v_config,      \* the mapping config of the generator under hydration
    v_generators,  \* what transform_mapping_to_generators returned
    v_document,    \* what generate_fake_document returned
    v_pc           \* "ready" | "called" | "hydrated" | "generated" | "raised"

nvars == <<v_call, v_value, v_error, v_config, v_generators, v_document, v_pc>>

NIdle ==
    /\ v_call = EmptyDict
    /\ v_value = EmptyDict
    /\ v_error = "none"
    /\ v_config = EmptyDict
    /\ v_generators = EmptyDict
    /\ v_document = EmptyDict
    /\ v_pc = "unused"

\* ---- the chunk workers, invoked twice with the same arguments
VARIABLES
    k_worker,      \* "generate_data_chunk" | "generate_documents_from_worker"
    k_chunk_size,  \* the chunk_size argument of both invocations
    k_seed,        \* the seed of both invocations, None where none is given
    k_results      \* the document lists returned so far, in call order

kvars == <<k_worker, k_chunk_size, k_seed, k_results>>

KIdle ==
    /\ k_worker = "unused"
    /\ k_chunk_size = 0
    /\ k_seed = [none |-> TRUE, n |-> 0]
    /\ k_results = << >>

\* ---- the seeds of the generation rounds
VARIABLES
    q_path,        \* "user_module" | "mappings": which dataset generator runs
    q_clock,       \* the latest reading of time.time()
    q_round,       \* the number of rounds written
    q_seeds,       \* seeds of the round, one per worker
    q_submitted,   \* the seed argument of each worker's task of the round
    q_history,     \* q_submitted of the earlier rounds, oldest first
    q_pc           \* "loop" | "seeded" | "gathered" | "done"

qvars == <<q_path, q_clock, q_round, q_seeds, q_submitted, q_history, q_pc>>

QIdle ==
    /\ q_path = "unused"
    /\ q_clock = 0
    /\ q_round = 0
    /\ q_seeds = << >>
    /\ q_submitted = << >>
    /\ q_history = << >>
    /\ q_pc = "unused"

\* ---- IndexExtractor.extract_indices
VARIABLES
    i_indices,          \* custom_workload.indices: the names of the configured indices
    i_cluster,          \* what the cluster answers for each name
    i_next,             \* the position of the for loop in i_indices
    extracted_indices,  \* the result entries of the indices extracted
    failed_indices,     \* the indices recorded as failed
    i_error,            \* "none" or the exception extract_indices raised
    i_pc                \* "loop" | "returned" | "raised"

ivars == <<i_indices, i_cluster, i_next, extracted_indices, failed_indices,
           i_error, i_pc>>

IIdle ==
    /\ i_indices = << >>
    /\ i_cluster = EmptyDict
    /\ i_next = 0
    /\ extracted_indices = << >>
    /\ failed_indices = << >>
    /\ i_error = "none"
    /\ i_pc = "unused"

\* ---- corpus.dump_documents
VARIABLES
    c_concurrent,      \* the concurrent argument
    c_number_of_docs,  \* the number_of_docs argument
    c_threads,         \* the threads argument
    c_batch_size,      \* the batch_size argument
    c_ranges,          \* the ranges of the split, in order
    c_tasks,           \* per range: "queued" | "running" | "finished"
    c_parts,           \* per range: the lines of its part file
    c_merged,          \* the lines of the merged corpus file
    c_error,           \* "none" or the exception dump_documents raised
    c_pc               \* "start" | "dumping" | "merged" | "raised"

cvars == <<c_concurrent, c_number_of_docs, c_threads, c_batch_size, c_ranges,
           c_tasks, c_parts, c_merged, c_error, c_pc>>

CIdle ==
    /\ c_concurrent = FALSE
    /\ c_number_of_docs = 0
    /\ c_threads = 0
    /\ c_batch_size = 0
    /\ c_ranges = << >>
    /\ c_tasks = << >>
    /\ c_parts = << >>
    /\ c_merged = << >>
    /\ c_error = "none"
    /\ c_pc = "unused"

\* ---- SequentialCorpusExtractor.extract_documents
VARIABLES
    d_total_documents,       \* the documents of the index
    d_documents_limit,       \* the documents_limit argument, None where not given
    d_documents_to_extract,  \* the local of extract_documents
    d_test_corpus,           \* the lines of the test-mode corpus file
    d_full_corpus,           \* the lines of the full corpus file
    d_written,               \* the corpus files opened for writing
    d_result,                \* what extract_documents returned
    d_pc                     \* "start" | "dump_test" | "dump_full" | "vars" | "returned"

dvars == <<d_total_documents, d_documents_limit, d_documents_to_extract,
           d_test_corpus, d_full_corpus, d_written, d_result, d_pc>>

DIdle ==
    /\ d_total_documents = 0
    /\ d_documents_limit = [none |-> TRUE, n |-> 0]
    /\ d_documents_to_extract = 0
    /\ d_test_corpus = << >>
    /\ d_full_corpus = << >>
    /\ d_written = {}
    /\ d_result = [none |-> TRUE, n |-> 0]
    /\ d_pc = "unused"

\* the state of the workload generator
yvars == <<ivars, cvars, dvars>>

YIdle == IIdle /\ CIdle /\ DIdle

zvars == <<svars, nvars, kvars, qvars, yvars>>

ZIdle == SIdle /\ NIdle /\ KIdle /\ QIdle /\ YIdle

vars == <<wvars, tvars, gvars, xvars, zvars>>

Workers == 1..workers

\* file_size taken from the running estimate instead of the stat
GetSize_estimate(fs, i) == current_size

\* os.path.getsize(file_path) for the file with index i
GetSize(fs, i) == fs[i]

\* bytes on disk of output file i (0 when it was never opened)
OnDisk(i) == IF i \in DOMAIN files THEN files[i] ELSE 0

\* open(file_path, 'a'): creates the file when it does not exist
OpenAppend(fs, i) == IF i \in DOMAIN fs THEN fs ELSE fs @@ (i :> 0)

\* f.write(json.dumps(item) + '\n')
AppendLine(fs, i, doc) == [OpenAppend(fs, i) EXCEPT ![i] = @ + doc]

\* a rollback that removes the partially written file
OnWriteError_rollback(fs, i) == [j \in (DOMAIN fs) \ {i} |-> fs[j]]

\* A failed json.dumps leaves the file as the with-block closes it.
OnWriteError(fs, i) == OpenAppend(fs, i)

\* the outer loop stops one byte short of the budget
BudgetOpen_short(cs, total) == cs + 1 < total

\* while current_size < total_size_bytes
BudgetOpen(cs, total) == cs < total

\* the inner loop still appends to a file that has reached the ceiling
FileHasRoom_inclusive(fsz, max) == fsz <= max

\* while file_size < max_file_size_bytes
FileHasRoom(fsz, max) == fsz < max

\* the break on the byte budget is missing
BudgetMet_never(cs, total) == FALSE

\* the break is taken only when the budget is exceeded
BudgetMet_strict(cs, total) == cs > total

\* if current_size >= total_size_bytes: break
BudgetMet(cs, total) == cs >= total

\* results are taken as soon as one task has finished (as_completed style)
AllSucceeded_first(f) == \E w \in DOMAIN f : f[w] = "finished"

\* failed tasks are skipped (gather(errors='skip'))
AllSucceeded_skip(f) == \A w \in DOMAIN f : f[w] \in {"finished", "error"}

\* client.gather(futures) returns once every future has finished
AllSucceeded(f) == \A w \in DOMAIN f : f[w] = "finished"

\* client.gather(futures) re-raises the exception of a failed future
AnyFailed(f) == \E w \in DOMAIN f : f[w] = "error"

\* the chunk is counted twice in the running total
WrittenSize_twice(written, avg) == 2 * written * avg

\* the running total counts documents, not bytes
WrittenSize_count(written, avg) == written

\* written_size = written * avg_document_size
WrittenSize(written, avg) == written * avg

Init ==
    /\ total_size_bytes \in 0..MaxTotal
    /\ max_file_size_bytes \in 0..MaxFileSize
    /\ chunk_size \in 1..MaxChunkSize
    /\ workers \in 1..MaxWorkers
    /\ avg_document_size = 0
    /\ current_size = 0
    /\ docs_written = 0
    /\ file_counter = 0
    /\ file_size = 0
    /\ files = << >>
    /\ futures = [w \in Workers |-> "idle"]
    /\ chunks = [w \in Workers |-> << >>]
    /\ results = << >>
    /\ wi = 1
    /\ di = 1
    /\ pc = "start"
    /\ error = "none"
    /\ undersized = FALSE
    /\ start_date = 0
    /\ end_date = 0
    /\ frequency = "min"
    /\ docs_per_chunk = 1
    /\ datetimeindex = << >>
    /\ frequencies_to_try = << >>
    /\ frequency_tried = ""
    /\ datetime_windows = << >>
    /\ ts_pc = "unused"
    /\ ts_error = "none"
    /\ GIdle
    /\ MIdle
    /\ PIdle
    /\ RIdle
    /\ ZIdle

\* the dataset writer and the partitioner are not part of the run
WIdle ==
    /\ total_size_bytes = 0
    /\ max_file_size_bytes = 0
    /\ chunk_size = 1
    /\ workers = 1
    /\ avg_document_size = 0
    /\ current_size = 0
    /\ docs_written = 0
    /\ file_counter = 0
    /\ file_size = 0
    /\ files = << >>
    /\ futures = << >>
    /\ chunks = << >>
    /\ results = << >>
    /\ wi = 1
    /\ di = 1
    /\ pc = "unused"
    /\ error = "none"
    /\ undersized = FALSE

TIdle ==
    /\ start_date = 0
    /\ end_date = 0
    /\ frequency = "min"
    /\ docs_per_chunk = 1
    /\ datetimeindex = << >>
    /\ frequencies_to_try = << >>
    /\ frequency_tried = ""
    /\ datetime_windows = << >>
    /\ ts_pc = "unused"
    /\ ts_error = "none"

\* get_avg_document_size: one sample document is written to a scratch
\* file, measured and removed.
GetAvgDocumentSize ==
    /\ pc = "start"
    /\ \E doc \in Docs :
         IF doc = Unserializable
         THEN /\ pc' = "raised"
              /\ error' = "serialize"
              /\ UNCHANGED avg_document_size
         ELSE /\ avg_document_size' = doc
              /\ pc' = "outer"
              /\ UNCHANGED error
    /\ UNCHANGED <<total_size_bytes, max_file_size_bytes, chunk_size, workers,
                   current_size, docs_written, file_counter, file_size, files,
                   futures, chunks, results, wi, di, undersized>>
    /\ UNCHANGED <<tvars, gvars, xvars, zvars>>

\* while current_size < total_size_bytes: file_path = ...; file_size = 0
OuterLoop ==
    /\ pc = "outer"
    /\ BudgetOpen(current_size, total_size_bytes)
    /\ file_size' = 0
    /\ pc' = "inner"
    /\ UNCHANGED <<total_size_bytes, max_file_size_bytes, chunk_size, workers,
                   avg_document_size, current_size, docs_written, file_counter,
                   files, futures, chunks, results, wi, di, error, undersized>>
    /\ UNCHANGED <<tvars, gvars, xvars, zvars>>

\* the outer loop condition fails: the call returns
Return ==
    /\ pc = "outer"
    /\ ~BudgetOpen(current_size, total_size_bytes)
    /\ pc' = "done"
    /\ UNCHANGED <<total_size_bytes, max_file_size_bytes, chunk_size, workers,
                   avg_document_size, current_size, docs_written, file_counter,
                   file_size, files, futures, chunks, results, wi, di, error,
                   undersized>>
    /\ UNCHANGED <<tvars, gvars, xvars, zvars>>

\* while file_size < max_file_size_bytes: seeds = ...; futures = [submit ...]
SubmitRound ==
    /\ pc = "inner"
    /\ FileHasRoom(file_size, max_file_size_bytes)
    /\ futures' = [w \in Workers |-> "pending"]
    /\ chunks' = [w \in Workers |-> << >>]
    /\ pc' = "gather"
    /\ UNCHANGED <<total_size_bytes, max_file_size_bytes, chunk_size, workers,
                   avg_document_size, current_size, docs_written, file_counter,
                   file_size, files, results, wi, di, error, undersized>>
    /\ UNCHANGED <<tvars, gvars, xvars, zvars>>

\* the inner loop condition fails
InnerExit ==
    /\ pc = "inner"
    /\ ~FileHasRoom(file_size, max_file_size_bytes)
    /\ pc' = "roll"
    /\ UNCHANGED <<total_size_bytes, max_file_size_bytes, chunk_size, workers,
                   avg_document_size, current_size, docs_written, file_counter,
                   file_size, files, futures, chunks, results, wi, di, error,
                   undersized>>
    /\ UNCHANGED <<tvars, gvars, xvars, zvars>>

\* file_counter += 1
RollFile ==
    /\ pc = "roll"
    /\ file_counter' = IF file_counter < MaxFiles THEN file_counter + 1
                       ELSE file_counter
    /\ pc' = "outer"
    /\ UNCHANGED <<total_size_bytes, max_file_size_bytes, chunk_size, workers,
                   avg_document_size, current_size, docs_written, file_size,
                   files, futures, chunks, results, wi, di, error, undersized>>
    /\ UNCHANGED <<tvars, gvars, xvars, zvars>>

\* a worker task returns its list of chunk_size documents
WorkerFinish(w) ==
    /\ pc = "gather"
    /\ futures[w] = "pending"
    /\ \E c \in [1..chunk_size -> Docs] :
         chunks' = [chunks EXCEPT ![w] = c]
    /\ futures' = [futures EXCEPT ![w] = "finished"]
    /\ UNCHANGED <<total_size_bytes, max_file_size_bytes, chunk_size, workers,
                   avg_document_size, current_size, docs_written, file_counter,
                   file_size, files, results, wi, di, pc, error, undersized>>
    /\ UNCHANGED <<tvars, gvars, xvars, zvars>>

\* a worker task raises
WorkerFail(w) ==
    /\ pc = "gather"
    /\ futures[w] = "pending"
    /\ futures' = [futures EXCEPT ![w] = "error"]
    /\ UNCHANGED <<total_size_bytes, max_file_size_bytes, chunk_size, workers,
                   avg_document_size, current_size, docs_written, file_counter,
                   file_size, files, chunks, results, wi, di, pc, error,
                   undersized>>
    /\ UNCHANGED <<tvars, gvars, xvars, zvars>>

\* results = client.gather(futures), every task succeeded
GatherResults ==
    /\ pc = "gather"
    /\ AllSucceeded(futures)
    /\ results' = [w \in Workers |-> chunks[w]]
    /\ wi' = 1
    /\ di' = 1
    /\ pc' = "write"
    /\ UNCHANGED <<total_size_bytes, max_file_size_bytes, chunk_size, workers,
                   avg_document_size, current_size, docs_written, file_counter,
                   file_size, files, futures, chunks, error, undersized>>
    /\ UNCHANGED <<tvars, gvars, xvars, zvars>>

\* results = client.gather(futures), a task failed: the exception leaves
\* the call (no try/except around the loop)
GatherRaise ==
    /\ pc = "gather"
    /\ AnyFailed(futures)
    /\ ~AllSucceeded(futures)
    /\ pc' = "raised"
    /\ error' = "worker"
    /\ UNCHANGED <<total_size_bytes, max_file_size_bytes, chunk_size, workers,
                   avg_document_size, current_size, docs_written, file_counter,
                   file_size, files, futures, chunks, results, wi, di,
                   undersized>>
    /\ UNCHANGED <<tvars, gvars, xvars, zvars>>

\* write_chunk, one iteration of "for item in data"
WriteItem ==
    /\ pc = "write"
    /\ wi <= Len(results)
    /\ di <= Len(results[wi])
    /\ LET doc == results[wi][di] IN
         IF doc = Unserializable
         THEN /\ files' = OnWriteError(files, file_counter)
              /\ pc' = "raised"
              /\ error' = "serialize"
              /\ UNCHANGED <<di, undersized>>
         ELSE /\ files' = AppendLine(files, file_counter, doc)
              /\ di' = di + 1
              /\ undersized' = (undersized \/ doc < avg_document_size)
              /\ UNCHANGED <<pc, error>>
    /\ UNCHANGED <<total_size_bytes, max_file_size_bytes, chunk_size, workers,
                   avg_document_size, current_size, docs_written, file_counter,
                   file_size, futures, chunks, results, wi>>
    /\ UNCHANGED <<tvars, gvars, xvars, zvars>>

\* write_chunk returns len(data); docs_written += written;
\* current_size += written * avg_document_size
ChunkWritten ==
    /\ pc = "write"
    /\ wi <= Len(results)
    /\ di > Len(results[wi])
    /\ LET written == Len(results[wi]) IN
         /\ docs_written' = docs_written + written
         /\ current_size' = current_size + WrittenSize(written, avg_document_size)
    /\ wi' = wi + 1
    /\ di' = 1
    /\ UNCHANGED <<total_size_bytes, max_file_size_bytes, chunk_size, workers,
                   avg_document_size, file_counter, file_size, files, futures,
                   chunks, results, pc, error, undersized>>
    /\ UNCHANGED <<tvars, gvars, xvars, zvars>>

\* file_size = os.path.getsize(file_path); if current_size >= total: break
StatFile ==
    /\ pc = "write"
    /\ wi > Len(results)
    /\ file_size' = GetSize(files, file_counter)
    /\ pc' = IF BudgetMet(current_size, total_size_bytes) THEN "roll" ELSE "inner"
    /\ UNCHANGED <<total_size_bytes, max_file_size_bytes, chunk_size, workers,
                   avg_document_size, current_size, docs_written, file_counter,
                   files, futures, chunks, results, wi, di, error, undersized>>
    /\ UNCHANGED <<tvars, gvars, xvars, zvars>>

Next ==
    \/ GetAvgDocumentSize
    \/ OuterLoop
    \/ Return
    \/ SubmitRound
    \/ InnerExit
    \/ RollFile
    \/ \E w \in Workers : WorkerFinish(w)
    \/ \E w \in Workers : WorkerFail(w)
    \/ GatherResults
    \/ GatherRaise
    \/ WriteItem
    \/ ChunkWritten
    \/ StatFile

Spec == Init /\ [][Next]_vars

\* Every step of the loop is eventually taken: the coordinating path runs
\* on, and a submitted task eventually returns or raises.
FairSpec == Spec /\ WF_vars(Next)

\* ------------------------------------------------ TimeSeriesPartitioner
\* Calendar of pd.date_range, scaled down: a tick is one millisecond, and a
\* second, minute, hour, day and week are a few of the next smaller unit.
MsPerS == 2
SPerMin == 2
MinPerH == 2
HPerDay == 4
DaysPerWeek == 3
BusinessDaysPerWeek == 2
BusinessOpen == 1
BusinessClose == 3
MaxDay == 2
MaxDocsPerChunk == 3

AVAILABLE_FREQUENCIES == <<"B", "C", "D", "h", "bh", "cbh", "min", "s", "ms">>

VALID_DATETIMESTAMPS_FORMATS ==
    <<"%Y-%m-%d", "%Y-%m-%dT%H:%M:%S", "%Y-%m-%dT%H:%M:%S.%f",
      "%Y-%m-%d %H:%M:%S", "%Y-%m-%d %H:%M:%S.%f", "%d/%m/%Y", "%m/%d/%Y",
      "%d-%m-%Y", "%m-%d-%Y", "%d.%m.%Y", "%Y%m%d", "%B %d, %Y", "%b %d, %Y",
      "%d %B %Y", "%d %b %Y", "%Y %B %d", "%d/%m/%Y %H:%M",
      "%d/%m/%Y %H:%M:%S", "%Y-%m-%d %I:%M %p", "%d.%m.%Y %H:%M", "%H:%M",
      "%H:%M:%S", "%I:%M %p", "%I:%M:%S %p", "%a, %d %b %Y %H:%M:%S",
      "%Y/%m/%d", "%Y/%m/%d %H:%M:%S", "%Y%m%d%H%M%S", "epoch_s", "epoch_ms">>

\* values a configuration or a caller may pass: the allow-lists and some
\* values outside them
FrequencyInputs ==
    {AVAILABLE_FREQUENCIES[i] : i \in 1..Len(AVAILABLE_FREQUENCIES)} \cup {"W"}

FormatInputs == {"%Y-%m-%dT%H:%M:%S", "epoch_s", "%Y"}

\* the timeseries_format settings of the runs: the default and one that is
\* not in the list
ConfiguredFormatInputs == {"%Y-%m-%dT%H:%M:%S", "%Y"}

\* the frequencies generate_datetimestamps_from_window is called with: its
\* default, the finest, and one that is not in the list
WindowFrequencyInputs == {"min", "ms", "W"}

\* every frequency passes the check
FrequencyAvailable_any(f) == TRUE

\* frequency in TimeSeriesPartitioner.AVAILABLE_FREQUENCIES
FrequencyAvailable(f) ==
    \E i \in 1..Len(AVAILABLE_FREQUENCIES) : AVAILABLE_FREQUENCIES[i] = f

\* only the strftime formats pass, the epoch encodings do not
FormatValid_noepoch(fmt) ==
    \E i \in 1..(Len(VALID_DATETIMESTAMPS_FORMATS) - 2) :
        VALID_DATETIMESTAMPS_FORMATS[i] = fmt

\* format in TimeSeriesPartitioner.VALID_DATETIMESTAMPS_FORMATS
FormatValid(fmt) ==
    \E i \in 1..Len(VALID_DATETIMESTAMPS_FORMATS) :
        VALID_DATETIMESTAMPS_FORMATS[i] = fmt

\* AVAILABLE_FREQUENCIES.index(f)
IndexOf(f) == CHOOSE i \in 1..Len(AVAILABLE_FREQUENCIES) : AVAILABLE_FREQUENCIES[i] = f

TicksPerS == MsPerS
TicksPerMin == TicksPerS * SPerMin
TicksPerH == TicksPerMin * MinPerH
TicksPerDay == TicksPerH * HPerDay

\* step of a frequency in ticks (business frequencies step by day / hour
\* and skip what lies outside business time)
Period(f) ==
    CASE f = "ms" -> 1
      [] f = "s" -> TicksPerS
      [] f = "min" -> TicksPerMin
      [] f \in {"h", "bh", "cbh"} -> TicksPerH
      [] f \in {"D", "B", "C"} -> TicksPerDay

IsBusinessDay(t) == ((t \div TicksPerDay) % DaysPerWeek) < BusinessDaysPerWeek

IsBusinessHour(t) ==
    /\ IsBusinessDay(t)
    /\ ((t % TicksPerDay) \div TicksPerH) >= BusinessOpen
    /\ ((t % TicksPerDay) \div TicksPerH) < BusinessClose

OnGrid(f, t) ==
    CASE f \in {"B", "C"} -> IsBusinessDay(t)
      [] f \in {"bh", "cbh"} -> IsBusinessHour(t)
      [] OTHER -> TRUE

\* pd.date_range(start, end, freq=f): the ascending timestamps
\* start, start + period, ... that are <= end and on the frequency's grid
DateRange(start, end, f) ==
    LET n == IF end < start THEN 0 ELSE ((end - start) \div Period(f)) + 1
        all == [i \in 1..n |-> start + (i - 1) * Period(f)]
        Keep(t) == OnGrid(f, t)
    IN SelectSeq(all, Keep)

\* a date of the configuration, as the tick of its midnight
Midnight(day) == day * TicksPerDay

\* expected_number_of_docs = total_size_bytes // avg_document_size
ExpectedNumberOfDocs == total_size_bytes \div avg_document_size

\* math.ceil((expected_number_of_docs * 0.1) + expected_number_of_docs)
ExpectedNumberOfDocsWithBuffer == (11 * ExpectedNumberOfDocs + 9) \div 10

\* if number_of_timestamps < expected_number_of_docs_with_buffer
GridTooSmall(n, needed) == n < needed

\* if number_of_timestamps > expected_number_of_docs_with_buffer: break
GridLargeEnough(n, needed) == n > needed

\* the last, shorter window is left out
StartIndices_floor(n, len) == [k \in 1..(n \div len) |-> (k - 1) * len + 1]

\* start_indices = np.arange(0, len(datetimestamps), time_window_length),
\* here 1-based
StartIndices(n, len) == [k \in 1..((n + len - 1) \div len) |-> (k - 1) * len + 1]

Min(a, b) == IF a < b THEN a ELSE b

\* the window end without the "- 1"
EndIndex_nominus(s, len, n) == Min(s + len, n)

\* end_indices = np.minimum(start_indices + time_window_length - 1, len - 1)
EndIndex(s, len, n) == Min(s + len - 1, n)

\* datetime_windows = list(zip(start_times, end_times))
Windows(grid, len) ==
    LET starts == StartIndices(Len(grid), len)
    IN [k \in 1..Len(starts) |->
          <<grid[starts[k]], grid[EndIndex(starts[k], len, Len(grid))]>>]

TSInit ==
    /\ total_size_bytes \in 0..MaxTotal
    /\ avg_document_size \in 1..MaxDocSize
    /\ workers \in 1..MaxWorkers
    /\ docs_per_chunk \in 1..MaxDocsPerChunk
    /\ start_date \in 0..MaxDay
    /\ end_date \in 0..MaxDay
    /\ frequency \in FrequencyInputs
    /\ format \in ConfiguredFormatInputs
    /\ gen_window = << >>
    /\ gen_frequency = "min"
    /\ gen_format = "%Y-%m-%dT%H:%M:%S"
    /\ generated_datetimestamps = << >>
    /\ gen_pc = "idle"
    /\ gen_error = "none"
    /\ datetimeindex = << >>
    /\ frequencies_to_try = << >>
    /\ frequency_tried = ""
    /\ datetime_windows = << >>
    /\ ts_pc = "unconstructed"
    /\ ts_error = "none"
    /\ max_file_size_bytes = 0
    /\ chunk_size = 1
    /\ current_size = 0
    /\ docs_written = 0
    /\ file_counter = 0
    /\ file_size = 0
    /\ files = << >>
    /\ futures = << >>
    /\ chunks = << >>
    /\ results = << >>
    /\ wi = 1
    /\ di = 1
    /\ pc = "unused"
    /\ error = "none"
    /\ undersized = FALSE
    /\ MIdle
    /\ PIdle
    /\ RIdle
    /\ ZIdle

\* __init__, lines 71-77: the frequency and the format are checked against
\* the allow-lists
Construct ==
    /\ ts_pc = "unconstructed"
    /\ IF ~FrequencyAvailable(frequency) \/ ~FormatValid(format)
       THEN /\ ts_pc' = "rejected"
            /\ ts_error' = "ConfigError"
       ELSE /\ ts_pc' = "new"
            /\ UNCHANGED ts_error
    /\ UNCHANGED <<start_date, end_date, frequency, docs_per_chunk,
                   datetimeindex, frequencies_to_try, frequency_tried,
                   datetime_windows>>
    /\ UNCHANGED <<wvars, gvars, xvars, zvars>>

\* generate_windows, lines 87-100: the grid at the configured frequency
CheckGrid ==
    /\ ts_pc = "new"
    /\ LET grid == DateRange(Midnight(start_date), Midnight(end_date), frequency) IN
         /\ datetimeindex' = grid
         /\ IF GridTooSmall(Len(grid), ExpectedNumberOfDocsWithBuffer)
            THEN IF frequency = "ms"
                 THEN /\ ts_pc' = "raised"
                      /\ ts_error' = "ConfigError"
                      /\ UNCHANGED frequencies_to_try
                 ELSE /\ frequencies_to_try' =
                           SubSeq(AVAILABLE_FREQUENCIES, IndexOf(frequency) + 1,
                                  Len(AVAILABLE_FREQUENCIES))
                      /\ ts_pc' = "refine"
                      /\ UNCHANGED ts_error
            ELSE /\ ts_pc' = "partition"
                 /\ UNCHANGED <<frequencies_to_try, ts_error>>
    /\ UNCHANGED <<start_date, end_date, frequency, docs_per_chunk,
                   frequency_tried, datetime_windows>>
    /\ UNCHANGED <<wvars, gvars, xvars, zvars>>

\* one iteration of "while frequencies_to_try", lines 103-112
TryFrequency ==
    /\ ts_pc = "refine"
    /\ frequencies_to_try # << >>
    /\ LET f == Head(frequencies_to_try)
           grid == DateRange(Midnight(start_date), Midnight(end_date), f)
       IN /\ frequency_tried' = f
          /\ frequencies_to_try' = Tail(frequencies_to_try)
          /\ datetimeindex' = grid
          /\ ts_pc' = IF GridLargeEnough(Len(grid), ExpectedNumberOfDocsWithBuffer)
                      THEN "refined" ELSE "refine"
    /\ UNCHANGED <<start_date, end_date, frequency, docs_per_chunk,
                   datetime_windows, ts_error>>
    /\ UNCHANGED <<wvars, gvars, xvars, zvars>>

\* the loop is left by break or because the deque is empty;
\* self.frequency = frequency, line 115
AssignFrequency ==
    /\ \/ ts_pc = "refined"
       \/ ts_pc = "refine" /\ frequencies_to_try = << >>
    /\ frequency' = frequency_tried
    /\ ts_pc' = "partition"
    /\ UNCHANGED <<start_date, end_date, docs_per_chunk, datetimeindex,
                   frequencies_to_try, frequency_tried, datetime_windows,
                   ts_error>>
    /\ UNCHANGED <<wvars, gvars, xvars, zvars>>

\* lines 123-140: cut the grid into windows of docs_per_chunk timestamps
Partition ==
    /\ ts_pc = "partition"
    /\ datetime_windows' = Windows(datetimeindex, docs_per_chunk)
    /\ ts_pc' = "verify"
    /\ UNCHANGED <<start_date, end_date, frequency, docs_per_chunk,
                   datetimeindex, frequencies_to_try, frequency_tried, ts_error>>
    /\ UNCHANGED <<wvars, gvars, xvars, zvars>>

\* len(pd.date_range(first_pair_start_time, first_pair_end_time, freq=self.frequency))
LengthOfFirstPair == Len(DateRange(datetime_windows[1][1], datetime_windows[1][2], frequency))

\* lines 147-159: re-expand the first window and compare with the chunk size
VerifyFirstPair ==
    /\ ts_pc = "verify"
    /\ IF datetime_windows = << >>
       THEN /\ ts_pc' = "raised"
            /\ ts_error' = "IndexError"
       ELSE IF LengthOfFirstPair # docs_per_chunk
            THEN /\ ts_pc' = "raised"
                 /\ ts_error' = "SystemSetupError"
            ELSE /\ ts_pc' = "returned"
                 /\ UNCHANGED ts_error
    /\ UNCHANGED <<start_date, end_date, frequency, docs_per_chunk,
                   datetimeindex, frequencies_to_try, frequency_tried,
                   datetime_windows>>
    /\ UNCHANGED <<wvars, gvars, xvars, zvars>>

\* x.strftime(format), int(x.timestamp()), int(x.timestamp() * 1000):
\* the timestamp as far as the format shows it
FormatTimestamp(fmt, t) ==
    CASE fmt = "epoch_s" -> t \div TicksPerS
      [] fmt = "epoch_ms" -> t
      [] fmt \in {"%Y-%m-%dT%H:%M:%S.%f", "%Y-%m-%d %H:%M:%S.%f"} -> <<fmt, t>>
      [] fmt \in {"%Y-%m-%dT%H:%M:%S", "%Y-%m-%d %H:%M:%S", "%d/%m/%Y %H:%M:%S",
                  "%a, %d %b %Y %H:%M:%S", "%Y/%m/%d %H:%M:%S", "%Y%m%d%H%M%S"}
           -> <<fmt, t \div TicksPerS>>
      [] fmt \in {"%d/%m/%Y %H:%M", "%Y-%m-%d %I:%M %p", "%d.%m.%Y %H:%M"}
           -> <<fmt, t \div TicksPerMin>>
      [] fmt \in {"%H:%M:%S", "%I:%M:%S %p"} -> <<fmt, (t % TicksPerDay) \div TicksPerS>>
      [] fmt \in {"%H:%M", "%I:%M %p"} -> <<fmt, (t % TicksPerDay) \div TicksPerMin>>
      [] OTHER -> <<fmt, t \div TicksPerDay>>

\* generate_datetimestamps_from_window(window, frequency, format), called
\* with the first or the last of the windows generate_windows returned
GenerateDatetimestampsFromWindow ==
    /\ ts_pc = "returned"
    /\ gen_pc = "idle"
    /\ \E k \in {1, Len(datetime_windows)}, f \in WindowFrequencyInputs, fmt \in FormatInputs :
         /\ gen_window' = datetime_windows[k]
         /\ gen_frequency' = f
         /\ gen_format' = fmt
         /\ IF ~FrequencyAvailable(f) \/ ~FormatValid(fmt)
            THEN /\ gen_pc' = "raised"
                 /\ gen_error' = "ConfigError"
                 /\ UNCHANGED generated_datetimestamps
            ELSE LET stamps == DateRange(datetime_windows[k][1], datetime_windows[k][2], f)
                 IN /\ generated_datetimestamps' =
                          [j \in 1..Len(stamps) |-> FormatTimestamp(fmt, stamps[j])]
                    /\ gen_pc' = "returned"
                    /\ UNCHANGED gen_error
    /\ UNCHANGED <<format>>
    /\ UNCHANGED <<wvars, tvars, xvars, zvars>>

TSNext ==
    \/ Construct
    \/ GenerateDatetimestampsFromWindow
    \/ CheckGrid
    \/ TryFrequency
    \/ AssignFrequency
    \/ Partition
    \/ VerifyFirstPair

TSSpec == TSInit /\ [][TSNext]_vars

\* ------------------------------ MappingParser, MappingSyntheticDataGenerator
\* A JSON object is a function on its keys.  A field definition of a mapping
\* has a "type", or "properties", or both, or neither.

\* types.py, TYPE_MAPPING
TYPE_MAPPING ==
    [text |-> "KEYWORD", keyword |-> "KEYWORD",
     long |-> "INTEGER", integer |-> "INTEGER", short |-> "INTEGER",
     byte |-> "INTEGER",
     double |-> "FLOAT", float |-> "FLOAT", half_float |-> "FLOAT",
     scaled_float |-> "FLOAT",
     date |-> "DATE", boolean |-> "BOOLEAN", nested |-> "NESTED",
     object |-> "OBJECT", binary |-> "BINARY", ip |-> "IP_ADDRESS"]

\* types.py, the members of the enum GeneratorTypes
GeneratorTypes ==
    {"KEYWORD", "INTEGER", "FLOAT", "DATE", "NESTED", "OBJECT", "TIMESTAMP",
     "IP_ADDRESS", "STATUS_CODE", "CURRENCY"}

\* the engine types the fields of the inputs declare
TypeInputs ==
    {"keyword", "boolean", "half_float", "geo_point", "geo_shape", "object"}

InnerFieldNames == {"x"}
FieldNames == {"a", "b"}

\* every dict whose keys are some of the names and whose values are infos
Dicts(names, infos) == UNION {[S -> infos] : S \in SUBSET names}

LeafFieldInfos == {[type |-> t] : t \in TypeInputs} \cup {EmptyDict}

InnerProperties == Dicts(InnerFieldNames, LeafFieldInfos)

CompositeFieldInfos ==
    {[properties |-> p] : p \in InnerProperties}
        \cup {[type |-> t, properties |-> p] :
                 t \in {"object", "nested"}, p \in InnerProperties}

PropertiesInputs == Dicts(FieldNames, LeafFieldInfos \cup CompositeFieldInfos)

IndexPatterns == <<"logs-*">>

\* index mappings, index templates, and documents that are neither
MappingInputs ==
    {[properties |-> p] : p \in PropertiesInputs}
        \cup {[index_patterns |-> IndexPatterns,
               mappings |-> [properties |-> p]] : p \in PropertiesInputs}
        \cup {[index_patterns |-> IndexPatterns, mappings |-> EmptyDict],
              [index_patterns |-> IndexPatterns],
              [settings |-> EmptyDict],
              EmptyDict}
        \cup {[mappings |-> [properties |-> p]] : p \in InnerProperties}

\* _get_field_type: dict.get gives None for a key the table lacks and never
\* raises KeyError, so the except clause is never entered
GetFieldType(opensearch_type) ==
    IF opensearch_type \in DOMAIN TYPE_MAPPING
    THEN TYPE_MAPPING[opensearch_type]
    ELSE "None"

\* _parse_mapping raises KeyError at field_info["type"]
RECURSIVE ParseMappingRaises(_)
ParseMappingRaises(properties) ==
    \E field_name \in DOMAIN properties :
        LET field_info == properties[field_name] IN
        IF "properties" \in DOMAIN field_info
        THEN ParseMappingRaises(field_info.properties)
        ELSE "type" \notin DOMAIN field_info

\* _parse_mapping, when it returns
RECURSIVE ParseMapping(_)
ParseMapping(properties) ==
    [field_name \in DOMAIN properties |->
        LET field_info == properties[field_name] IN
        IF "properties" \in DOMAIN field_info
        THEN ParseMapping(field_info.properties)
        ELSE [data_generator_type |-> GetFieldType(field_info.type),
              params |-> EmptyDict]]

ParseMappingResult(properties) ==
    IF ParseMappingRaises(properties)
    THEN [error |-> "KeyError", value |-> EmptyDict]
    ELSE [error |-> "none", value |-> ParseMapping(properties)]

\* _parse_template
ParseTemplateResult(template) ==
    IF "mappings" \in DOMAIN template
    THEN IF "properties" \in DOMAIN template.mappings
         THEN ParseMappingResult(template.mappings.properties)
         ELSE [error |-> "KeyError", value |-> EmptyDict]
    ELSE [error |-> "ValueError", value |-> EmptyDict]

\* the document is an index template
IsTemplate(data) == "index_patterns" \in DOMAIN data

\* MappingParser.parse
ParseResult(data) ==
    IF "properties" \in DOMAIN data
    THEN ParseMappingResult(data.properties)
    ELSE IF IsTemplate(data)
         THEN ParseTemplateResult(data)
         ELSE [error |-> "ValueError", value |-> EmptyDict]

\* parsed = MappingParser.parse(input_data)
Parse ==
    /\ m_pc = "input"
    /\ LET r == ParseResult(input_data) IN
       /\ parsed' = r.value
       /\ parse_error' = r.error
       /\ m_pc' = IF r.error = "none" THEN "parsed" ELSE "raised"
    /\ UNCHANGED <<input_data, reparsed, reparse_error, mapping_config,
                   generator_dict, h_error, document, h_pc>>
    /\ UNCHANGED <<wvars, tvars, gvars, pvars, rvars, zvars>>

\* MappingParser.parse(json.loads(json.dumps(parsed))): the blueprint is made
\* of dicts and strings (None becomes null and comes back as None), which
\* JSON reloads as they were
Reparse ==
    /\ m_pc = "parsed"
    /\ LET r == ParseResult(parsed) IN
       /\ reparsed' = r.value
       /\ reparse_error' = r.error
       /\ m_pc' = IF r.error = "none" THEN "reparsed" ELSE "reraised"
    /\ UNCHANGED <<input_data, parsed, parse_error, mapping_config,
                   generator_dict, h_error, document, h_pc>>
    /\ UNCHANGED <<wvars, tvars, gvars, pvars, rvars, zvars>>

\* MappingSyntheticDataGenerator.__init__, type_generators
type_generators ==
    [text |-> "generate_text", keyword |-> "generate_keyword",
     long |-> "generate_long", integer |-> "generate_integer",
     short |-> "generate_short", byte |-> "generate_byte",
     double |-> "generate_double", float |-> "generate_float",
     boolean |-> "generate_boolean", date |-> "generate_date",
     ip |-> "generate_ip", object |-> "generate_object",
     nested |-> "generate_nested", geo_point |-> "generate_geo_point"]

\* the generator methods getattr(self, gen_name, None) finds
GeneratorMethods == {type_generators[t] : t \in DOMAIN type_generators}

\* the generator methods declared with **params
AcceptsParams ==
    {"generate_text", "generate_keyword", "generate_integer",
     "generate_float", "generate_date"}

\* _generate_nested_array, min_items and max_items
MinItems == 1
MaxItems == 3

\* the config files of the runs: none, and one with an override for field b,
\* an override naming no generator method for field x, and default parameters
\* for two types
MappingConfigInputs ==
    {EmptyDict,
     [MappingSyntheticDataGenerator |->
        [overrides |->
            [b |-> [generator |-> "generate_ip", params |-> EmptyDict],
             x |-> [generator |-> "generate_uuid", params |-> EmptyDict]],
         default_generators |->
            [keyword |-> [choices |-> <<"k">>],
             boolean |-> [choices |-> <<"k">>]]]]}

\* config = self.mapping_config.get("MappingSyntheticDataGenerator", {})
GeneratorConfig(config_dict) ==
    IF "MappingSyntheticDataGenerator" \in DOMAIN config_dict
    THEN config_dict.MappingSyntheticDataGenerator
    ELSE EmptyDict

GetOr(dict, key, default) == IF key \in DOMAIN dict THEN dict[key] ELSE default

\* the properties transform_mapping_to_generators walks
SelectProperties(mapping_dict) ==
    IF "mappings" \in DOMAIN mapping_dict
    THEN GetOr(mapping_dict.mappings, "properties", EmptyDict)
    ELSE GetOr(mapping_dict, "properties", mapping_dict)

\* field_def.get fails on a value that is no dict: of the inputs, the list of
\* index patterns
TransformRaises(mapping_dict) ==
    "index_patterns" \in DOMAIN SelectProperties(mapping_dict)

\* the generator bound to a field type the table lacks
FallbackGenerator(field_type) == "unknown_type"

\* transform_mapping_to_generators, the loop over the fields; a bound lambda
\* is the generator it calls with the parameters (or nested generators) it
\* closes over
RECURSIVE BindGenerators(_, _)
BindGenerators(properties, config) ==
    LET default_generators == GetOr(config, "default_generators", EmptyDict)
        overrides == GetOr(config, "overrides", EmptyDict)
    IN
    [field_name \in DOMAIN properties |->
        LET field_def == properties[field_name]
            field_type == GetOr(field_def, "type", "None")
        IN
        IF field_type \in {"object", "nested"} /\ "properties" \in DOMAIN field_def
        THEN [generator |-> IF field_type = "object"
                            THEN "_generate_obj"
                            ELSE "_generate_nested_array",
              nested |-> BindGenerators(SelectProperties(field_def), config)]
        ELSE IF /\ field_name \in DOMAIN overrides
                /\ overrides[field_name].generator \in GeneratorMethods
        THEN [generator |-> overrides[field_name].generator,
              params |-> GetOr(overrides[field_name], "params", EmptyDict)]
        ELSE [generator |-> IF field_type \in DOMAIN type_generators
                            THEN type_generators[field_type]
                            ELSE FallbackGenerator(field_type),
              params |-> GetOr(default_generators, field_type, EmptyDict)]]

IsNestedGenerator(bound) ==
    bound.generator \in {"_generate_obj", "_generate_nested_array"}

\* gen(f, **p) fails with TypeError when p is not empty and the method takes
\* no keyword parameters
RECURSIVE GenerateRaises(_)
GenerateRaises(generators) ==
    \E field_name \in DOMAIN generators :
        LET bound == generators[field_name] IN
        IF IsNestedGenerator(bound)
        THEN GenerateRaises(bound.nested)
        ELSE /\ bound.generator \in GeneratorMethods \ AcceptsParams
             /\ DOMAIN bound.params # {}

\* the value a leaf generator returns: one of the given choices, the fallback
\* string, or a value of the generator's own form
LeafValue(bound) ==
    IF bound.generator = "unknown_type" THEN "unknown_type"
    ELSE IF bound.generator = "generate_keyword" /\ "choices" \in DOMAIN bound.params
    THEN bound.params.choices[1]
    ELSE "<" \o bound.generator \o ">"

\* generate_fake_document, _generate_obj, _generate_nested_array: counts[f] is
\* the number of objects drawn for the nested field f
RECURSIVE GenerateObject(_, _)
GenerateObject(generators, counts) ==
    [field_name \in DOMAIN generators |->
        LET bound == generators[field_name] IN
        IF bound.generator = "_generate_obj"
        THEN GenerateObject(bound.nested, counts)
        ELSE IF bound.generator = "_generate_nested_array"
        THEN [items |-> [i \in 1..counts[field_name] |->
                            GenerateObject(bound.nested, counts)]]
        ELSE [value |-> LeafValue(bound)]]

\* generator_dict = self.transform_mapping_to_generators(input_data)
TransformMappingToGenerators ==
    /\ h_pc = "input"
    /\ IF TransformRaises(input_data)
       THEN /\ h_error' = "AttributeError"
            /\ h_pc' = "raised"
            /\ UNCHANGED generator_dict
       ELSE /\ generator_dict' = BindGenerators(SelectProperties(input_data),
                                                GeneratorConfig(mapping_config))
            /\ h_pc' = "hydrated"
            /\ UNCHANGED h_error
    /\ UNCHANGED <<input_data, parsed, parse_error, reparsed, reparse_error,
                   m_pc, mapping_config, document>>
    /\ UNCHANGED <<wvars, tvars, gvars, pvars, rvars, zvars>>

\* document = self.generate_fake_document(generator_dict)
GenerateFakeDocument ==
    /\ h_pc = "hydrated"
    /\ IF GenerateRaises(generator_dict)
       THEN /\ h_error' = "TypeError"
            /\ h_pc' = "generate_raised"
            /\ UNCHANGED document
       ELSE /\ \E counts \in [FieldNames \cup InnerFieldNames -> MinItems..MaxItems] :
                   document' = GenerateObject(generator_dict, counts)
            /\ h_pc' = "generated"
            /\ UNCHANGED h_error
    /\ UNCHANGED <<input_data, parsed, parse_error, reparsed, reparse_error,
                   m_pc, mapping_config, generator_dict>>
    /\ UNCHANGED <<wvars, tvars, gvars, pvars, rvars, zvars>>

MapInit ==
    /\ input_data \in MappingInputs
    /\ mapping_config \in MappingConfigInputs
    /\ parsed = EmptyDict
    /\ parse_error = "none"
    /\ reparsed = EmptyDict
    /\ reparse_error = "none"
    /\ m_pc = "input"
    /\ generator_dict = EmptyDict
    /\ h_error = "none"
    /\ document = EmptyDict
    /\ h_pc = "input"
    /\ WIdle
    /\ TIdle
    /\ GIdle
    /\ PIdle
    /\ RIdle
    /\ ZIdle

MapNext ==
    \/ Parse
    \/ Reparse
    \/ TransformMappingToGenerators
    \/ GenerateFakeDocument

MapSpec == MapInit /\ [][MapNext]_vars

\* ----------------------------------------------------- TemplateDocumentParser
\* A string is the sequence of its characters.

\* the longest parameter text of the inputs
MaxParamLen == 4

\* the characters of the inputs that \w matches
WordChars == {"N", "k", "x", "1", "_"}

Digits == {"1"}

Whitespace == {" "}

\* every string of at most n characters of the alphabet
Strings(alphabet, n) == UNION {[1..m -> alphabet] : m \in 0..n}

\* the values of the template field: a prefix, a generator name, an opening
\* parenthesis, a parameter text, a closing parenthesis and an ending, each
\* present, absent or malformed
TemplateValueInputs ==
    {prefix \o name \o open \o params \o close \o ending :
        prefix \in {<<"{", "{">>, <<"{">>},
        name \in {<< >>, <<"N">>, <<"N", "_", "1">>, <<"N", "-">>},
        open \in {<<"(">>, << >>},
        params \in Strings({"k", "=", "1", ",", " "}, MaxParamLen),
        close \in {<<")">>, << >>},
        ending \in {<<"}", "}">>, <<"}", "}", "x", "}", "}">>, <<"}", "}", "x">>}}

\* str.startswith and str.endswith
StartsWith(s, prefix) ==
    Len(s) >= Len(prefix) /\ SubSeq(s, 1, Len(prefix)) = prefix

EndsWith(s, suffix) ==
    Len(s) >= Len(suffix) /\ SubSeq(s, Len(s) - Len(suffix) + 1, Len(s)) = suffix

\* the number of characters of s from position i on that \w+ consumes
RECURSIVE WordRun(_, _)
WordRun(s, i) ==
    IF i <= Len(s) /\ s[i] \in WordChars THEN 1 + WordRun(s, i + 1) ELSE 0

\* the first position from i on where pattern occurs in s, or 0
RECURSIVE Find(_, _, _)
Find(s, pattern, i) ==
    IF i + Len(pattern) - 1 > Len(s) THEN 0
    ELSE IF SubSeq(s, i, i + Len(pattern) - 1) = pattern THEN i
    ELSE Find(s, pattern, i + 1)

\* re.match(r'{{(\w+)\((.*?)\)}}', s): anchored at the start only; the name
\* is the whole run of word characters, the parameter text ends at the first
\* ')}}' after the parenthesis, and what follows it is not looked at
RegexMatch(s) ==
    LET n == WordRun(s, 3)
        close == Find(s, <<")", "}", "}">>, 4 + n)
    IN
    IF /\ StartsWith(s, <<"{", "{">>)
       /\ n >= 1
       /\ 3 + n <= Len(s)
       /\ s[3 + n] = "("
       /\ close # 0
    THEN [matched |-> TRUE,
          name |-> SubSeq(s, 3, 2 + n),
          params_str |-> SubSeq(s, 4 + n, close - 1)]
    ELSE [matched |-> FALSE, name |-> << >>, params_str |-> << >>]

\* str.split(sep) for a one-character separator
RECURSIVE Split(_, _)
Split(s, sep) ==
    LET i == Find(s, <<sep>>, 1) IN
    IF i = 0 THEN <<s>>
    ELSE <<SubSeq(s, 1, i - 1)>> \o Split(SubSeq(s, i + 1, Len(s)), sep)

\* str.strip()
RECURSIVE Strip(_)
Strip(s) ==
    IF s # << >> /\ s[1] \in Whitespace THEN Strip(Tail(s))
    ELSE IF s # << >> /\ s[Len(s)] \in Whitespace THEN Strip(SubSeq(s, 1, Len(s) - 1))
    ELSE s

\* int(value) succeeds
IsInt(value) == value # << >> /\ \A i \in 1..Len(value) : value[i] \in Digits

RECURSIVE IntOf(_)
IntOf(value) ==
    IF value = << >> THEN 0
    ELSE 10 * IntOf(SubSeq(value, 1, Len(value) - 1)) + 1

\* _parse_value: an integer where int() accepts the text, else (no float,
\* true or false can be written with the characters of the inputs) the text
ParseValue(value) ==
    IF IsInt(value) THEN [int |-> IntOf(value)] ELSE [str |-> value]

\* key, value = param.split('=') fails unless there is exactly one '='
UnpackError(param) ==
    LET parts == Len(Split(param, "=")) IN
    IF parts < 2 THEN "ValueError(not enough values to unpack)"
    ELSE IF parts > 2 THEN "ValueError(too many values to unpack)"
    ELSE "none"

\* the loop of _parse_params over the pieces: the error of the first piece
\* that does not unpack
RECURSIVE ParamsError(_)
ParamsError(pieces) ==
    IF pieces = << >> THEN "none"
    ELSE IF UnpackError(Head(pieces)) # "none" THEN UnpackError(Head(pieces))
    ELSE ParamsError(Tail(pieces))

\* the dict the loop builds: a later key overwrites an earlier one
RECURSIVE ParamsDict(_)
ParamsDict(pieces) ==
    IF pieces = << >> THEN EmptyDict
    ELSE LET last == Split(pieces[Len(pieces)], "=") IN
         (Strip(last[1]) :> ParseValue(Strip(last[2])))
             @@ ParamsDict(SubSeq(pieces, 1, Len(pieces) - 1))

\* _parse_params
ParseParams(params_str) ==
    IF params_str = << >> THEN [error |-> "none", params |-> EmptyDict]
    ELSE LET pieces == Split(params_str, ",") IN
         IF ParamsError(pieces) # "none"
         THEN [error |-> ParamsError(pieces), params |-> EmptyDict]
         ELSE [error |-> "none", params |-> ParamsDict(pieces)]

\* _parse_template_data_generator
ParseTemplateDataGenerator(template_data_generator) ==
    LET match == RegexMatch(template_data_generator) IN
    IF match.matched
    THEN LET p == ParseParams(match.params_str) IN
         [error |-> p.error,
          value |-> IF p.error = "none"
                    THEN [data_generator_type |-> match.name, params |-> p.params]
                    ELSE EmptyDict]
    ELSE [error |-> "ValueError(Invalid template_data_generator: token)",
          value |-> EmptyDict]

\* the value is handed to _parse_template_data_generator
IsPlaceholder(value) ==
    StartsWith(value, <<"{", "{">>) /\ EndsWith(value, <<"}", "}">>)

\* TemplateDocumentParser.parse of a document with one field
ParseTemplateDocument ==
    /\ tp_pc = "input"
    /\ IF IsPlaceholder(template_value)
       THEN LET r == ParseTemplateDataGenerator(template_value) IN
            /\ parsed_template' = r.value
            /\ template_error' = r.error
            /\ tp_pc' = IF r.error = "none" THEN "parsed" ELSE "raised"
       ELSE /\ parsed_template' = [type |-> "STATIC", value |-> template_value]
            /\ template_error' = "none"
            /\ tp_pc' = "parsed"
    /\ UNCHANGED template_value
    /\ UNCHANGED <<wvars, tvars, gvars, mvars, rvars, zvars>>

TemplateInit ==
    /\ template_value \in TemplateValueInputs
    /\ parsed_template = EmptyDict
    /\ template_error = "none"
    /\ tp_pc = "input"
    /\ WIdle
    /\ TIdle
    /\ GIdle
    /\ MIdle
    /\ RIdle
    /\ ZIdle

TemplateNext == ParseTemplateDocument

TemplateSpec == TemplateInit /\ [][TemplateNext]_vars

\* ------------------------------------------------------------ range generators
\* Numbers stand for themselves, floats for their value in hundredths
\* (right_digits=2), IP addresses for their integer value and dates for their
\* day number.  An entry of a returned pair is [none |-> FALSE, n |-> value],
\* or [none |-> TRUE, n |-> 0] for None.

\* the largest value of Faker's random_int() and random_double()
MaxRandomInt == 4
\* the default max_value of FloatRangeGenerator
MaxFloat == 3
\* the largest address
MaxIp == 3
\* get_smaller_ip_address subtracts random.randint(1, 1000)
MaxIpStep == 2
\* the day datetime.now() falls on, counted from 2000-01-01
MaxDateDay == 2

Some(n) == [none |-> FALSE, n |-> n]
None == [none |-> TRUE, n |-> 0]

\* generators.py, DATE_FORMATS
DATE_FORMATS == {"strict_year_month", "strict_year_month_day"}

\* the keyword arguments of the calls
FloatKwargsInputs ==
    {EmptyDict, [min_value |-> 1], [max_value |-> 2], [min_value |-> 1, max_value |-> 2]}

IPKwargsInputs ==
    {EmptyDict, [use_cidr |-> TRUE], [format |-> "ipv6"],
     [use_cidr |-> TRUE, format |-> "ipv6"]}

\* format.split("||") of the formats of the calls
DateKwargsInputs ==
    {EmptyDict,
     [format |-> <<"strict_year_month">>],
     [format |-> <<"strict_year_month", "strict_year_month_day">>],
     [format |-> <<"yyyy-MM-dd">>]}

\* what a call does: it returns a value or raises
Returned(value) == [error |-> "none", value |-> value]
Raised(e) == [error |-> e, value |-> EmptyDict]

\* the values random_int(max=upper) draws from
UpTo(upper) == 0..upper

\* IntegerRangeGenerator.generate
IntegerRangeOutcomes ==
    {Returned([gte |-> Some(greater_than_equal_to_number),
               lte |-> Some(less_than_equal_to_number)]) :
        <<greater_than_equal_to_number, less_than_equal_to_number>> \in
            {p \in (0..MaxRandomInt) \X (0..MaxRandomInt) : p[2] \in UpTo(p[1])}}

IntegerRangeGenerate ==
    /\ r_pc = "idle"
    /\ \E outcome \in IntegerRangeOutcomes :
           /\ range_value' = outcome.value
           /\ range_error' = outcome.error
           /\ r_pc' = IF outcome.error = "none" THEN "returned" ELSE "raised"
    /\ range_generator' = "IntegerRangeGenerator"
    /\ range_kwargs' = EmptyDict
    /\ UNCHANGED <<wvars, tvars, gvars, mvars, pvars, zvars>>

\* DoubleRangeGenerator.generate: random_double is no method of Faker's
\* standard providers, so the attribute lookup fails; with a provider that
\* has it the second draw is capped by the first
DoubleRangeOutcomes ==
    {Raised("AttributeError")} \cup
    {Returned([gte |-> Some(greater_than_equal_to_number),
               lte |-> Some(less_than_equal_to_number)]) :
        <<greater_than_equal_to_number, less_than_equal_to_number>> \in
            {p \in (0..MaxRandomInt) \X (0..MaxRandomInt) : p[2] \in UpTo(p[1])}}

DoubleRangeGenerate ==
    /\ r_pc = "idle"
    /\ \E outcome \in DoubleRangeOutcomes :
           /\ range_value' = outcome.value
           /\ range_error' = outcome.error
           /\ r_pc' = IF outcome.error = "none" THEN "returned" ELSE "raised"
    /\ range_generator' = "DoubleRangeGenerator"
    /\ range_kwargs' = EmptyDict
    /\ UNCHANGED <<wvars, tvars, gvars, mvars, pvars, zvars>>

\* FloatRangeGenerator.generate: the second pyfloat call passes min_value as
\* left_digits and no lower limit, so it draws a value of at most the first,
\* or rejects its arguments
FloatRangeOutcomes(kwargs) ==
    LET min_value == GetOr(kwargs, "min_value", 0)
        max_value == GetOr(kwargs, "max_value", MaxFloat)
    IN
    {Raised("ValueError")} \cup
    {Returned([gte |-> Some(greater_than_equal_to_float),
               lte |-> Some(less_than_equal_to_float)]) :
        <<greater_than_equal_to_float, less_than_equal_to_float>> \in
            {p \in (min_value..max_value) \X ((0 - MaxFloat)..max_value) :
                p[2] <= p[1]}}

FloatRangeGenerate ==
    /\ r_pc = "idle"
    /\ \E kwargs \in FloatKwargsInputs :
           /\ range_kwargs' = kwargs
           /\ \E outcome \in FloatRangeOutcomes(kwargs) :
                  /\ range_value' = outcome.value
                  /\ range_error' = outcome.error
                  /\ r_pc' = IF outcome.error = "none" THEN "returned" ELSE "raised"
    /\ range_generator' = "FloatRangeGenerator"
    /\ UNCHANGED <<wvars, tvars, gvars, mvars, pvars, zvars>>

\* get_smaller_ip_address
SmallerIpAddress(int_ip_address, step) ==
    IF int_ip_address - step > 0 THEN int_ip_address - step ELSE 0

\* IPRangeGenerator.generate
IPRangeOutcomes(kwargs) ==
    IF GetOr(kwargs, "use_cidr", FALSE)
    THEN {Returned([cidr |-> Some(ip_address)]) : ip_address \in 0..MaxIp}
    ELSE {Returned([gte |-> Some(ip_address),
                    lte |-> Some(SmallerIpAddress(ip_address, step))]) :
             ip_address \in 0..MaxIp, step \in 1..MaxIpStep}

IPRangeGenerate ==
    /\ r_pc = "idle"
    /\ \E kwargs \in IPKwargsInputs :
           /\ range_kwargs' = kwargs
           /\ \E outcome \in IPRangeOutcomes(kwargs) :
                  /\ range_value' = outcome.value
                  /\ range_error' = outcome.error
                  /\ r_pc' = IF outcome.error = "none" THEN "returned" ELSE "raised"
    /\ range_generator' = "IPRangeGenerator"
    /\ UNCHANGED <<wvars, tvars, gvars, mvars, pvars, zvars>>

\* DateRangeGenerator.generate: without a format, False.split fails; with a
\* valid format DateGenerator.generate returns nothing for gte, and the
\* second call, with end_date=None, draws a day up to today
DateRangeOutcomes(kwargs) ==
    IF "format" \notin DOMAIN kwargs
    THEN {Raised("AttributeError")}
    ELSE IF \E i \in 1..Len(kwargs.format) : kwargs.format[i] \notin DATE_FORMATS
    THEN {Raised("ValueError")}
    ELSE {Returned([gte |-> None, lte |-> Some(lte_date)]) :
             lte_date \in 0..MaxDateDay}

DateRangeGenerate ==
    /\ r_pc = "idle"
    /\ \E kwargs \in DateKwargsInputs :
           /\ range_kwargs' = kwargs
           /\ \E outcome \in DateRangeOutcomes(kwargs) :
                  /\ range_value' = outcome.value
                  /\ range_error' = outcome.error
                  /\ r_pc' = IF outcome.error = "none" THEN "returned" ELSE "raised"
    /\ range_generator' = "DateRangeGenerator"
    /\ UNCHANGED <<wvars, tvars, gvars, mvars, pvars, zvars>>

RangeInit ==
    /\ range_generator = "none"
    /\ range_kwargs = EmptyDict
    /\ range_value = EmptyDict
    /\ range_error = "none"
    /\ r_pc = "idle"
    /\ WIdle
    /\ TIdle
    /\ GIdle
    /\ MIdle
    /\ PIdle
    /\ ZIdle

RangeNext ==
    \/ IntegerRangeGenerate
    \/ DoubleRangeGenerate
    \/ FloatRangeGenerate
    \/ IPRangeGenerate
    \/ DateRangeGenerate

RangeSpec == RangeInit /\ [][RangeNext]_vars

\* ------------------------------------------------------ generation settings
\* DEFAULT_GENERATION_SETTINGS as imported from types.py (the dict itself is
\* declared outside the files at hand; its keys and values are those the
\* config documentation gives for the settings block)
DEFAULT_GENERATION_SETTINGS ==
    [workers |-> Some(8), max_file_size_gb |-> Some(40), chunk_size |-> Some(1000)]

\* the values a user config gives a setting: None or a number
SettingValueInputs == {None, Some(1), Some(2)}

\* the settings blocks of the user configs: any of the three settings and a
\* key that is no setting
SettingsInputs ==
    UNION {[S -> SettingValueInputs] :
              S \in SUBSET {"workers", "max_file_size_gb", "chunk_size", "docs_per_chunk"}}

\* the user configs: without a settings block, or with one
ConfigInputs == {EmptyDict} \cup {[settings |-> u] : u \in SettingsInputs}

\* the for loop of get_generation_settings over the keys of the defaults
UpdateSettings(settings, user_generation_settings) ==
    [k \in DOMAIN settings |->
        IF k \in DOMAIN user_generation_settings /\ ~user_generation_settings[k].none
        THEN user_generation_settings[k]
        ELSE settings[k]]

\* get_generation_settings(config): generation_settings is another name for
\* the module-level dict, so the loop's assignments change that dict, and the
\* dict is what is returned
GetGenerationSettings ==
    /\ s_pc \in {"ready", "returned"}
    /\ \E config \in ConfigInputs :
         LET user_generation_settings == GetOr(config, "settings", EmptyDict) IN
         /\ input_config' = config
         /\ default_generation_settings' =
                IF DOMAIN user_generation_settings = {}
                THEN default_generation_settings
                ELSE UpdateSettings(default_generation_settings, user_generation_settings)
         /\ generation_settings' = default_generation_settings'
    /\ s_pc' = "returned"
    /\ UNCHANGED <<wvars, tvars, gvars, xvars, nvars, kvars, qvars, yvars>>

SettingsInit ==
    /\ default_generation_settings = DEFAULT_GENERATION_SETTINGS
    /\ input_config = EmptyDict
    /\ generation_settings = EmptyDict
    /\ s_pc = "ready"
    /\ WIdle
    /\ TIdle
    /\ GIdle
    /\ MIdle
    /\ PIdle
    /\ RIdle
    /\ NIdle
    /\ KIdle
    /\ QIdle
    /\ YIdle

SettingsNext == GetGenerationSettings

SettingsSpec == SettingsInit /\ [][SettingsNext]_vars

\* ------------------------------------------------- generated values, hydration
\* A generated leaf value is a record: the term chosen from a list of choices
\* (or ""), the fixed text of the generator (or ""), and the number drawn.

\* the span of the integer generator's default range (for 2147483648)
IntegerSpan == 2

\* the span of the float generator's range (for 1000)
FloatSpan == 2

\* the number of distinct values of the other draws (for randint(1, 100) and
\* the eight hexadecimal digits of a uuid4)
DrawSpan == 2

Leaf(term, body, n) == [term |-> term, body |-> body, n |-> n]

\* random.randint(a, b): any integer of a..b; none when a > b, where randint
\* raises ValueError
RandInt(a, b) == a..b

\* random.uniform(a, b), on the integer grid
Uniform(a, b) == a..b

\* random.choice(choices)
Choice(choices) == {choices[i] : i \in 1..Len(choices)}

\* the keyword parameters min and max of the direct calls: absent or given
ParamValueInputs == -1..1

RangeParamsInputs ==
    UNION {[S -> ParamValueInputs] : S \in SUBSET {"min", "max"}}

\* generate_text; every text field of the mappings has the standard analyzer
GenerateTextOutcomes(params) ==
    LET choices == GetOr(params, "must_include", << >>) IN
    {Leaf(term, "Sample text for", n) :
        term \in (IF choices # << >> THEN Choice(choices) ELSE {""}),
        n \in RandInt(1, DrawSpan)}

\* generate_keyword
GenerateKeywordOutcomes(params) ==
    LET choices == GetOr(params, "choices", << >>) IN
    IF choices # << >>
    THEN {Leaf(keyword, "", 0) : keyword \in Choice(choices)}
    ELSE {Leaf("", "key_", n) : n \in 1..DrawSpan}

\* generate_integer: random.randint(min, max) of the parameters
GenerateIntegerOutcomes(params) ==
    LET min == GetOr(params, "min", -IntegerSpan)
        max == GetOr(params, "max", IntegerSpan - 1)
    IN {Leaf("", "int", n) : n \in RandInt(min, max)}

\* generate_float: min and max are read and not used
GenerateFloatOutcomes(params) ==
    LET min == GetOr(params, "min", 0)
        max == GetOr(params, "max", FloatSpan)
    IN {Leaf("", "float", n) : n \in Uniform(-FloatSpan, FloatSpan)}

\* the values a bound leaf generator can return
ValueOutcomes(bound) ==
    CASE bound.generator = "generate_text" -> GenerateTextOutcomes(bound.params)
      [] bound.generator = "generate_keyword" -> GenerateKeywordOutcomes(bound.params)
      [] bound.generator = "generate_integer" -> GenerateIntegerOutcomes(bound.params)
      [] bound.generator = "generate_float" -> GenerateFloatOutcomes(bound.params)
      [] bound.generator = "unknown_type" -> {Leaf("unknown_type", "", 0)}
      [] OTHER -> {Leaf("", bound.generator, n) : n \in 1..DrawSpan}

\* generate_fake_document, _generate_obj, _generate_nested_array: every
\* document the bound generators can return
RECURSIVE DocumentOutcomes(_)
DocumentOutcomes(generators) ==
    IF DOMAIN generators = {} THEN {EmptyDict}
    ELSE
    LET field_name == CHOOSE f \in DOMAIN generators : TRUE
        bound == generators[field_name]
        rest == DocumentOutcomes([f \in DOMAIN generators \ {field_name} |-> generators[f]])
        values ==
            IF bound.generator = "_generate_obj"
            THEN DocumentOutcomes(bound.nested)
            ELSE IF bound.generator = "_generate_nested_array"
            THEN {[items |-> result] :
                    result \in UNION {[1..count -> DocumentOutcomes(bound.nested)] :
                                        count \in RandInt(MinItems, MaxItems)}}
            ELSE ValueOutcomes(bound)
    IN
    {[f \in DOMAIN generators |-> IF f = field_name THEN value ELSE others[f]] :
        value \in values, others \in rest}

\* the call of a generator raises: TypeError for keyword parameters given to a
\* method that takes none, ValueError for randint over an empty range
RECURSIVE DocumentRaises(_)
DocumentRaises(generators) ==
    \/ GenerateRaises(generators)
    \/ \E field_name \in DOMAIN generators :
          LET bound == generators[field_name] IN
          IF IsNestedGenerator(bound)
          THEN DocumentRaises(bound.nested)
          ELSE ValueOutcomes(bound) = {}

\* the index mapping of the hydration runs
SampleMapping ==
    [mappings |->
        [properties |->
            [title |-> [type |-> "text"],
             price |-> [type |-> "float"],
             tags |-> [type |-> "keyword"],
             category_id |-> [type |-> "integer"],
             author_profile |->
                [type |-> "object",
                 properties |-> [email |-> [type |-> "keyword"]]],
             other_works |->
                [type |-> "nested",
                 properties |-> [title |-> [type |-> "text"]]]]]]

\* the per-type parameters and per-field overrides of the config files
TypeParams ==
    [integer |-> [min |-> 0, max |-> 1],
     float |-> [min |-> 0, max |-> 1]]

FieldOverrides ==
    ("title" :> [generator |-> "generate_text",
                 params |-> [must_include |-> <<"Mark S">>]])
    @@ ("tags" :> [generator |-> "generate_keyword",
                   params |-> [choices |-> <<"monet">>]])
    @@ ("other_works.title" :> [generator |-> "generate_text",
                                params |-> [must_include |-> <<"Mark S">>]])
    @@ ("author_profile.email" :> [generator |-> "generate_keyword",
                                   params |-> [choices |-> <<"marktwain@gmail.com">>]])

\* the configs of the hydration runs: none, one under the keys
\* generator_overrides and field_overrides, one under the keys
\* default_generators and overrides
HydrationConfigInputs ==
    {EmptyDict,
     [MappingSyntheticDataGenerator |->
        [generator_overrides |-> TypeParams, field_overrides |-> FieldOverrides]],
     [MappingSyntheticDataGenerator |->
        [default_generators |-> TypeParams, overrides |-> FieldOverrides]]}

\* generate_integer(field_def, **params)
GenerateInteger ==
    /\ v_pc \in {"ready", "called"}
    /\ \E params \in RangeParamsInputs :
         /\ v_call' = [generator |-> "generate_integer", params |-> params]
         /\ IF GenerateIntegerOutcomes(params) = {}
            THEN /\ v_error' = "ValueError"
                 /\ v_value' = EmptyDict
            ELSE /\ v_value' \in GenerateIntegerOutcomes(params)
                 /\ v_error' = "none"
    /\ v_pc' = "called"
    /\ UNCHANGED <<v_config, v_generators, v_document>>
    /\ UNCHANGED <<wvars, tvars, gvars, xvars, svars, kvars, qvars, yvars>>

\* generate_float(field_def, **params)
GenerateFloat ==
    /\ v_pc \in {"ready", "called"}
    /\ \E params \in RangeParamsInputs :
         /\ v_call' = [generator |-> "generate_float", params |-> params]
         /\ v_value' \in GenerateFloatOutcomes(params)
    /\ v_error' = "none"
    /\ v_pc' = "called"
    /\ UNCHANGED <<v_config, v_generators, v_document>>
    /\ UNCHANGED <<wvars, tvars, gvars, xvars, svars, kvars, qvars, yvars>>

\* MappingSyntheticDataGenerator(config).transform_mapping_to_generators(mapping)
HydrateWithConfig ==
    /\ v_pc = "ready"
    /\ \E config \in HydrationConfigInputs :
         /\ v_config' = config
         /\ v_generators' = BindGenerators(SelectProperties(SampleMapping),
                                           GeneratorConfig(config))
    /\ v_pc' = "hydrated"
    /\ UNCHANGED <<v_call, v_value, v_error, v_document>>
    /\ UNCHANGED <<wvars, tvars, gvars, xvars, svars, kvars, qvars, yvars>>

\* generate_fake_document(generator_dict) with the values drawn
GenerateDocumentValues ==
    /\ v_pc = "hydrated"
    /\ IF DocumentRaises(v_generators)
       THEN /\ v_error' = "Error"
            /\ v_pc' = "raised"
            /\ UNCHANGED v_document
       ELSE /\ v_document' \in DocumentOutcomes(v_generators)
            /\ v_pc' = "generated"
            /\ UNCHANGED v_error
    /\ UNCHANGED <<v_call, v_value, v_config, v_generators>>
    /\ UNCHANGED <<wvars, tvars, gvars, xvars, svars, kvars, qvars, yvars>>

ValueInit ==
    /\ v_call = EmptyDict
    /\ v_value = EmptyDict
    /\ v_error = "none"
    /\ v_config = EmptyDict
    /\ v_generators = EmptyDict
    /\ v_document = EmptyDict
    /\ v_pc = "ready"
    /\ WIdle
    /\ TIdle
    /\ GIdle
    /\ MIdle
    /\ PIdle
    /\ RIdle
    /\ SIdle
    /\ KIdle
    /\ QIdle
    /\ YIdle

ValueNext ==
    \/ GenerateInteger
    \/ GenerateFloat
    \/ HydrateWithConfig
    \/ GenerateDocumentValues

ValueSpec == ValueInit /\ [][ValueNext]_vars

\* --------------------------------------------------------- the chunk workers
\* the largest seed of the runs
MaxSeed == 2

SeedInputs == {None} \cup {Some(n) : n \in 0..MaxSeed}

ChunkSizeInputs == 0..MaxChunkSize

\* the state a provider is seeded to by reseed(seed) and seed(seed): the seed
\* itself, or any state when the seed is None (the provider then seeds itself
\* from the system)
SeededStates(seed) == IF seed.none THEN 0..MaxSeed ELSE {seed.n}

\* the value a seeded provider returns at its n-th draw
ProviderDraw(state, position) == (state + position) % (MaxSeed + 1)

\* user_defined_function(providers=providers, **custom_lists), called for the
\* i-th time on the same providers: a document of one value of each provider
UserDocument(generic, random, i) ==
    [generic |-> ProviderDraw(generic, i), random |-> ProviderDraw(random, i)]

\* generate_data_chunk: instantiate_all_providers, seed_providers, and the
\* list of chunk_size documents
GenerateDataChunkOutcomes(num_docs, seed) ==
    {[i \in 1..num_docs |-> UserDocument(generic, random, i)] :
        generic \in SeededStates(seed), random \in SeededStates(seed)}

\* the index mapping given to the mapping worker
ChunkMapping == [mappings |-> [properties |-> [tags |-> [type |-> "keyword"]]]]

\* generate_documents_from_worker(index_mappings, mapping_config, chunk_size):
\* a new MappingSyntheticDataGenerator (whose constructor seeds its two
\* mimesis objects with 1), the generators of the mapping, and chunk_size
\* documents of them; the generators draw from the module random and from
\* uuid.uuid4, which nothing seeds
GenerateDocumentsFromWorkerOutcomes(index_mappings, config_dict, num_docs) ==
    LET mappings_with_generators ==
            BindGenerators(SelectProperties(index_mappings),
                           GeneratorConfig(config_dict))
    IN [1..num_docs -> DocumentOutcomes(mappings_with_generators)]

\* one invocation of generate_data_chunk with the seed
GenerateDataChunk ==
    /\ k_worker = "generate_data_chunk"
    /\ Len(k_results) < 2
    /\ \E documents \in GenerateDataChunkOutcomes(k_chunk_size, k_seed) :
          k_results' = Append(k_results, documents)
    /\ UNCHANGED <<k_worker, k_chunk_size, k_seed>>
    /\ UNCHANGED <<wvars, tvars, gvars, xvars, svars, nvars, qvars, yvars>>

\* one invocation of generate_documents_from_worker, which takes no seed
GenerateDocumentsFromWorker ==
    /\ k_worker = "generate_documents_from_worker"
    /\ Len(k_results) < 2
    /\ \E documents \in
            GenerateDocumentsFromWorkerOutcomes(ChunkMapping, EmptyDict, k_chunk_size) :
          k_results' = Append(k_results, documents)
    /\ UNCHANGED <<k_worker, k_chunk_size, k_seed>>
    /\ UNCHANGED <<wvars, tvars, gvars, xvars, svars, nvars, qvars, yvars>>

ChunkInit ==
    /\ k_worker \in {"generate_data_chunk", "generate_documents_from_worker"}
    /\ k_chunk_size \in ChunkSizeInputs
    /\ k_seed \in SeedInputs
    /\ k_results = << >>
    /\ WIdle
    /\ TIdle
    /\ GIdle
    /\ MIdle
    /\ PIdle
    /\ RIdle
    /\ SIdle
    /\ NIdle
    /\ QIdle
    /\ YIdle

ChunkNext ==
    \/ GenerateDataChunk
    \/ GenerateDocumentsFromWorker

ChunkSpec == ChunkInit /\ [][ChunkNext]_vars

\* ------------------------------------------------------ seeds of the rounds
\* the rounds of a run
MaxRounds == 2

\* int(md5(worker_id + timestamp).hexdigest()[:8], 16), taken to be free of
\* collisions over the runs: a different number for every worker and
\* timestamp; timestamp 0 stands for the hash of the worker id alone
Md5Prefix(worker_id, timestamp) == timestamp * (MaxWorkers + 1) + worker_id

\* the readings of time.time() in the loop of generate_seeds_for_workers: the
\* clock does not run backwards and may stand still between two readings
ClockReadings(clock, worker_ids) ==
    {readings \in [worker_ids -> clock..(clock + Cardinality(worker_ids))] :
        \A w \in worker_ids :
            readings[w] >= (IF w = 1 THEN clock ELSE readings[w - 1])}

\* generate_seeds_for_workers(regenerate=True)
GenerateSeedsForWorkers ==
    /\ q_pc = "loop"
    /\ \E worker_ids \in {1..n : n \in 1..MaxWorkers} :
       \E timestamps \in ClockReadings(q_clock, worker_ids) :
          /\ q_seeds' = [w \in worker_ids |-> Md5Prefix(w, timestamps[w])]
          /\ q_clock' = timestamps[Cardinality(worker_ids)]
    /\ q_pc' = "seeded"
    /\ UNCHANGED <<q_path, q_round, q_submitted, q_history>>
    /\ UNCHANGED <<wvars, tvars, gvars, xvars, svars, nvars, kvars, yvars>>

\* futures = [client.submit(...) for seed in seeds]; client.gather(futures):
\* generate_data_chunk is submitted with the seed, generate_documents_from_worker
\* without it
SubmitAndGather ==
    /\ q_pc = "seeded"
    /\ q_submitted' = [w \in DOMAIN q_seeds |->
                          IF q_path = "user_module" THEN Some(q_seeds[w]) ELSE None]
    /\ q_pc' = "gathered"
    /\ UNCHANGED <<q_path, q_clock, q_round, q_seeds, q_history>>
    /\ UNCHANGED <<wvars, tvars, gvars, xvars, svars, nvars, kvars, yvars>>

\* the chunks of the round are written, which takes time; the loops go on or
\* the byte budget ends them
WriteRound ==
    /\ q_pc = "gathered"
    /\ q_round < MaxRounds
    /\ q_history' = Append(q_history, q_submitted)
    /\ q_round' = q_round + 1
    /\ q_clock' = q_clock + 1
    /\ q_pc' \in (IF q_round' < MaxRounds THEN {"loop", "done"} ELSE {"done"})
    /\ UNCHANGED <<q_path, q_seeds, q_submitted>>
    /\ UNCHANGED <<wvars, tvars, gvars, xvars, svars, nvars, kvars, yvars>>

SeedInit ==
    /\ q_path \in {"user_module", "mappings"}
    /\ q_clock = 1
    /\ q_round = 0
    /\ q_seeds = << >>
    /\ q_submitted = << >>
    /\ q_history = << >>
    /\ q_pc = "loop"
    /\ WIdle
    /\ TIdle
    /\ GIdle
    /\ MIdle
    /\ PIdle
    /\ RIdle
    /\ SIdle
    /\ NIdle
    /\ KIdle
    /\ YIdle

SeedNext ==
    \/ GenerateSeedsForWorkers
    \/ SubmitAndGather
    \/ WriteRound

SeedSpec == SeedInit /\ [][SeedNext]_vars

\* ----------------------------------------------------------- IndexExtractor
\* An index name is the sequence of its characters.

\* the most indices a workload is configured with
MaxIndices == 3

\* the index names of the runs: two plain names and a hidden one
IndexNames == {<<"a">>, <<"b">>, <<".", "c">>}

\* custom_workload.indices: distinct names, in any order
IndicesInputs ==
    {indices \in UNION {[1..n -> IndexNames] : n \in 1..MaxIndices} :
        \A i, j \in DOMAIN indices : i # j => indices[i] # indices[j]}

\* what client.indices.get does for a name: returns the index, raises
\* NotFoundError, or raises another OpenSearchException
ClusterInputs == [IndexNames -> {"found", "not_found", "unavailable"}]

\* is_valid_index
IsValidIndex(index_name) == Len(index_name) # 0 /\ index_name[1] # "."

\* extract(outdir, index_pattern): one result entry per valid index of the
\* response
Extract(index_pattern) ==
    IF IsValidIndex(index_pattern)
    THEN <<[name |-> index_pattern,
            filename |-> index_pattern \o <<".", "j", "s", "o", "n">>]>>
    ELSE << >>

\* one iteration of the for loop of extract_indices, with the except clauses
\* around the loop: NotFoundError is raised again as SystemSetupError; any
\* other OpenSearchException ends the loop at failed_indices += index, which
\* extends the list by the index or, the index being no iterable, raises
\* TypeError
ExtractIndex ==
    /\ i_pc = "loop"
    /\ i_next <= Len(i_indices)
    /\ LET index == i_indices[i_next] IN
       CASE i_cluster[index] = "found" ->
              /\ extracted_indices' = extracted_indices \o Extract(index)
              /\ i_next' = i_next + 1
              /\ UNCHANGED <<failed_indices, i_error, i_pc>>
         [] i_cluster[index] = "not_found" ->
              /\ i_error' = "SystemSetupError"
              /\ i_pc' = "raised"
              /\ UNCHANGED <<extracted_indices, failed_indices, i_next>>
         [] i_cluster[index] = "unavailable" ->
              /\ \/ /\ failed_indices' = failed_indices \o <<index>>
                    /\ i_pc' = "returned"
                    /\ UNCHANGED i_error
                 \/ /\ i_error' = "TypeError"
                    /\ i_pc' = "raised"
                    /\ UNCHANGED failed_indices
              /\ UNCHANGED <<extracted_indices, i_next>>
    /\ UNCHANGED <<i_indices, i_cluster>>
    /\ UNCHANGED <<wvars, tvars, gvars, xvars, svars, nvars, kvars, qvars, cvars, dvars>>

\* return extracted_indices, failed_indices after the last index
ReturnIndices ==
    /\ i_pc = "loop"
    /\ i_next > Len(i_indices)
    /\ i_pc' = "returned"
    /\ UNCHANGED <<i_indices, i_cluster, i_next, extracted_indices, failed_indices,
                   i_error>>
    /\ UNCHANGED <<wvars, tvars, gvars, xvars, svars, nvars, kvars, qvars, cvars, dvars>>

IndexInit ==
    /\ i_indices \in IndicesInputs
    /\ i_cluster \in ClusterInputs
    /\ i_next = 1
    /\ extracted_indices = << >>
    /\ failed_indices = << >>
    /\ i_error = "none"
    /\ i_pc = "loop"
    /\ WIdle
    /\ TIdle
    /\ GIdle
    /\ MIdle
    /\ PIdle
    /\ RIdle
    /\ SIdle
    /\ NIdle
    /\ KIdle
    /\ QIdle
    /\ CIdle
    /\ DIdle

IndexNext ==
    \/ ExtractIndex
    \/ ReturnIndices

IndexSpec == IndexInit /\ [][IndexNext]_vars

\* ------------------------------------------------------ corpus.dump_documents
\* A document is its offset in the index sorted by _id; a file is the
\* sequence of the documents of its lines.

\* the most documents dump_documents is asked for
MaxCorpusDocs == 4

\* the most threads
MaxThreads == 3

\* the documents of the index: dump_documents is asked for no more than the
\* index holds
IndexSize == MaxCorpusDocs

BatchSizeInputs == {0, 2}

\* list(range(0, number_of_docs, step)) for step > 0
RangeStarts(number_of_docs, step) ==
    [i \in 1..((number_of_docs + step - 1) \div step) |-> (i - 1) * step]

\* ranges = [(i, i + step) for i in range(0, number_of_docs, step)]
Ranges(number_of_docs, step) ==
    [i \in DOMAIN RangeStarts(number_of_docs, step) |->
        [start_doc |-> RangeStarts(number_of_docs, step)[i],
         end_doc |-> RangeStarts(number_of_docs, step)[i] + step]]

\* max_doc = total_docs if end_doc > total_docs else end_doc
MaxDoc(range, total_docs) ==
    IF range.end_doc > total_docs THEN total_docs ELSE range.end_doc

\* the batch size dump_documents_range queries with
BatchSize(batch_size, range, total_docs) ==
    LET size == IF batch_size > 0
                THEN batch_size
                ELSE (MaxDoc(range, total_docs) - range.start_doc) \div 5
    IN IF size < 1 THEN 1 ELSE size

\* response["hits"]["hits"] of the query that follows n documents read: the
\* next size documents of the index from offset start_doc + n on
Hits(range, n, size) ==
    LET from == range.start_doc + n
        count == IF from + size <= IndexSize THEN size
                 ELSE IF from < IndexSize THEN IndexSize - from ELSE 0
    IN [i \in 1..count |-> from + i - 1]

\* the first part of dump_documents: the split into ranges and the
\* submission of one task per range, or the single range of the sequential
\* mode; range(0, number_of_docs, 0) raises ValueError
SplitRanges ==
    /\ c_pc = "start"
    /\ LET step == c_number_of_docs \div c_threads IN
       IF c_concurrent /\ step = 0
       THEN /\ c_error' = "ValueError"
            /\ c_pc' = "raised"
            /\ UNCHANGED <<c_ranges, c_tasks, c_parts>>
       ELSE /\ c_ranges' = IF c_concurrent
                           THEN Ranges(c_number_of_docs, step)
                           ELSE <<[start_doc |-> 0, end_doc |-> c_number_of_docs]>>
            /\ c_tasks' = [r \in DOMAIN c_ranges' |-> "queued"]
            /\ c_parts' = [r \in DOMAIN c_ranges' |-> << >>]
            /\ c_pc' = "dumping"
            /\ UNCHANGED c_error
    /\ UNCHANGED <<c_concurrent, c_number_of_docs, c_threads, c_batch_size, c_merged>>
    /\ UNCHANGED <<wvars, tvars, gvars, xvars, svars, nvars, kvars, qvars, ivars, dvars>>

\* the threads a pool of max_workers threads runs at once; the sequential
\* mode calls dump_documents_range itself
PoolSize == IF c_concurrent THEN c_threads ELSE 1

\* a thread of the pool takes the next queued range and opens its part files
StartRange ==
    /\ c_pc = "dumping"
    /\ Cardinality({r \in DOMAIN c_tasks : c_tasks[r] = "running"}) < PoolSize
    /\ \E r \in DOMAIN c_tasks :
         /\ c_tasks[r] = "queued"
         /\ \A q \in 1..(r - 1) : c_tasks[q] # "queued"
         /\ c_tasks' = [c_tasks EXCEPT ![r] = "running"]
         /\ c_parts' = [c_parts EXCEPT ![r] = << >>]
    /\ UNCHANGED <<c_concurrent, c_number_of_docs, c_threads, c_batch_size, c_ranges,
                   c_merged, c_error, c_pc>>
    /\ UNCHANGED <<wvars, tvars, gvars, xvars, svars, nvars, kvars, qvars, ivars, dvars>>

\* one iteration of the while loop of dump_documents_range: a search, and the
\* hits written until the range is complete; the task ends when the range is
\* complete or the search returns no hits
DumpBatch ==
    /\ c_pc = "dumping"
    /\ \E r \in DOMAIN c_tasks :
         LET range == c_ranges[r]
             n == Len(c_parts[r])
             wanted == MaxDoc(range, c_number_of_docs) - range.start_doc
             hits == Hits(range, n, BatchSize(c_batch_size, range, c_number_of_docs))
             written == IF Len(hits) <= wanted - n THEN hits
                        ELSE SubSeq(hits, 1, wanted - n)
         IN
         /\ c_tasks[r] = "running"
         /\ c_parts' = [c_parts EXCEPT ![r] = @ \o written]
         /\ c_tasks' = [c_tasks EXCEPT ![r] =
                           IF hits = << >> \/ n + Len(written) >= wanted
                           THEN "finished" ELSE "running"]
    /\ UNCHANGED <<c_concurrent, c_number_of_docs, c_threads, c_batch_size, c_ranges,
                   c_merged, c_error, c_pc>>
    /\ UNCHANGED <<wvars, tvars, gvars, xvars, svars, nvars, kvars, qvars, ivars, dvars>>

\* client.search raises in a range task: the sequential mode passes the
\* exception on; in the concurrent mode it stays in the result of
\* executor.map, which nothing reads, and the task is over
SearchRaises ==
    /\ c_pc = "dumping"
    /\ \E r \in DOMAIN c_tasks :
         /\ c_tasks[r] = "running"
         /\ c_tasks' = [c_tasks EXCEPT ![r] = "finished"]
    /\ IF c_concurrent
       THEN UNCHANGED <<c_error, c_pc>>
       ELSE c_error' = "OpenSearchException" /\ c_pc' = "raised"
    /\ UNCHANGED <<c_concurrent, c_number_of_docs, c_threads, c_batch_size, c_ranges,
                   c_parts, c_merged>>
    /\ UNCHANGED <<wvars, tvars, gvars, xvars, svars, nvars, kvars, qvars, ivars, dvars>>

\* the lines of the part files in the order of the ranges
RECURSIVE Concat(_)
Concat(parts) ==
    IF parts = << >> THEN << >> ELSE Head(parts) \o Concat(Tail(parts))

\* merge_json_files, called once the with block of the executor has waited
\* for every task: the part files are copied in range order and removed
MergeJsonFiles ==
    /\ c_pc = "dumping"
    /\ \A r \in DOMAIN c_tasks : c_tasks[r] = "finished"
    /\ c_merged' = Concat(c_parts)
    /\ c_parts' = [r \in DOMAIN c_parts |-> << >>]
    /\ c_pc' = "merged"
    /\ UNCHANGED <<c_concurrent, c_number_of_docs, c_threads, c_batch_size, c_ranges,
                   c_tasks, c_error>>
    /\ UNCHANGED <<wvars, tvars, gvars, xvars, svars, nvars, kvars, qvars, ivars, dvars>>

DumpInit ==
    /\ c_concurrent \in BOOLEAN
    /\ c_number_of_docs \in 1..MaxCorpusDocs
    /\ c_threads \in 1..MaxThreads
    /\ c_batch_size \in BatchSizeInputs
    /\ c_ranges = << >>
    /\ c_tasks = << >>
    /\ c_parts = << >>
    /\ c_merged = << >>
    /\ c_error = "none"
    /\ c_pc = "start"
    /\ WIdle
    /\ TIdle
    /\ GIdle
    /\ MIdle
    /\ PIdle
    /\ RIdle
    /\ SIdle
    /\ NIdle
    /\ KIdle
    /\ QIdle
    /\ IIdle
    /\ DIdle

DumpNext ==
    \/ SplitRanges
    \/ StartRange
    \/ DumpBatch
    \/ SearchRaises
    \/ MergeJsonFiles

DumpSpec == DumpInit /\ [][DumpNext]_vars

\* -------------------------------------------------- SequentialCorpusExtractor
\* the most documents an index holds
MaxIndexDocs == 4

\* DEFAULT_TEST_MODE_DOC_COUNT (for 1000)
TestModeDocCount == 2

\* the documents_limit argument: not given, or a number
DocumentsLimitInputs == {None} \cup {Some(n) : n \in 0..(MaxIndexDocs + 1)}

\* documents_to_extract = total_documents if not documents_limit
\*                        else min(total_documents, documents_limit)
DocumentsToExtract_unlimited(total_documents, documents_limit) ==
    total_documents

DocumentsToExtract(total_documents, documents_limit) ==
    IF documents_limit.none \/ documents_limit.n = 0
    THEN total_documents
    ELSE Min(total_documents, documents_limit.n)

\* the lines dump_documents writes: the documents helpers.scan yields, up to
\* number_of_docs of them
Dumped(total_documents, number_of_docs) ==
    [i \in 1..Min(total_documents, number_of_docs) |-> i]

\* extract_documents up to the first dump: the count, the number to extract,
\* and the return of None when there is nothing to extract
ExtractDocuments ==
    /\ d_pc = "start"
    /\ d_documents_to_extract' = DocumentsToExtract(d_total_documents, d_documents_limit)
    /\ IF d_documents_to_extract' > 0
       THEN /\ d_pc' = "dump_test"
            /\ UNCHANGED d_result
       ELSE /\ d_pc' = "returned"
            /\ d_result' = None
    /\ UNCHANGED <<d_total_documents, d_documents_limit, d_test_corpus, d_full_corpus,
                   d_written>>
    /\ UNCHANGED <<wvars, tvars, gvars, xvars, svars, nvars, kvars, qvars, ivars, cvars>>

\* dump_documents, called for the test-mode corpus and then for the full one
DumpDocuments ==
    /\ d_pc \in {"dump_test", "dump_full"}
    /\ IF d_pc = "dump_test"
       THEN /\ d_test_corpus' =
                  Dumped(d_total_documents, Min(d_documents_to_extract, TestModeDocCount))
            /\ d_written' = d_written \cup {"-documents-1k.json"}
            /\ d_pc' = "dump_full"
            /\ UNCHANGED d_full_corpus
       ELSE /\ d_full_corpus' = Dumped(d_total_documents, d_documents_to_extract)
            /\ d_written' = d_written \cup {"-documents.json"}
            /\ d_pc' = "vars"
            /\ UNCHANGED d_test_corpus
    /\ UNCHANGED <<d_total_documents, d_documents_limit, d_documents_to_extract, d_result>>
    /\ UNCHANGED <<wvars, tvars, gvars, xvars, svars, nvars, kvars, qvars, ivars, cvars>>

\* return self.template_vars(index, docs_path, documents_to_extract): the
\* doc_count of the result
TemplateVars ==
    /\ d_pc = "vars"
    /\ d_result' = Some(d_documents_to_extract)
    /\ d_pc' = "returned"
    /\ UNCHANGED <<d_total_documents, d_documents_limit, d_documents_to_extract,
                   d_test_corpus, d_full_corpus, d_written>>
    /\ UNCHANGED <<wvars, tvars, gvars, xvars, svars, nvars, kvars, qvars, ivars, cvars>>

SequentialInit ==
    /\ d_total_documents \in 0..MaxIndexDocs
    /\ d_documents_limit \in DocumentsLimitInputs
    /\ d_documents_to_extract = 0
    /\ d_test_corpus = << >>
    /\ d_full_corpus = << >>
    /\ d_written = {}
    /\ d_result = None
    /\ d_pc = "start"
    /\ WIdle
    /\ TIdle
    /\ GIdle
    /\ MIdle
    /\ PIdle
    /\ RIdle
    /\ SIdle
    /\ NIdle
    /\ KIdle
    /\ QIdle
    /\ IIdle
    /\ CIdle

SequentialNext ==
    \/ ExtractDocuments
    \/ DumpDocuments
    \/ TemplateVars

SequentialSpec == SequentialInit /\ [][SequentialNext]_vars

\* ------------------------------------------------------------ properties
Terminated == pc \in {"done", "raised"}

\* a generation round is started by this step
RoundStarts == pc # "gather" /\ pc' = "gather"

RECURSIVE SumOnDisk(_)
SumOnDisk(S) ==
    IF S = {} THEN 0
    ELSE LET i == CHOOSE j \in S : TRUE IN files[i] + SumOnDisk(S \ {i})

\* sum of the on-disk sizes of all output files
TotalOnDisk == SumOnDisk(DOMAIN files)

\* number of output files of the run
OutputFiles == Cardinality(DOMAIN files)

\* bytes one round adds to the running total
RoundEstimate == workers * chunk_size * avg_document_size

\* C1 as stated: with at least one worker, chunk_size >= 1 and
\* avg_document_size >= 1 the generation loop eventually terminates, no round
\* is started once current_size >= total_size_bytes, and at return
\* current_size >= total_size_bytes.
C1_Original ==
    /\ <>Terminated
    /\ [][RoundStarts => current_size < total_size_bytes]_vars
    /\ [](pc = "done" => current_size >= total_size_bytes)

\* C1, amended: the same, for runs whose max_file_size_bytes is at least 1
\* (with a ceiling of 0 the inner loop is never entered and the outer loop
\* only advances file_counter).
C1_Terminates ==
    /\ (max_file_size_bytes >= 1) ~> Terminated
    /\ [][RoundStarts => current_size < total_size_bytes]_vars
    /\ [](pc = "done" => current_size >= total_size_bytes)

C1_Witness ==
    /\ pc = "done"
    /\ total_size_bytes > 0
    /\ current_size >= total_size_bytes
    /\ file_counter >= 2

\* C2: file_counter advances only when file_size is the on-disk size of the
\* current file as measured after the round's appends and that size has reached
\* max_file_size_bytes (or the byte budget is met); and nothing is appended to
\* a file whose last measured size is already >= max_file_size_bytes.
C2_RollAfterStat ==
    [][ /\ (file_counter' # file_counter =>
              /\ file_size = OnDisk(file_counter)
              /\ \/ file_size >= max_file_size_bytes
                 \/ current_size >= total_size_bytes)
        /\ (files' # files => file_size < max_file_size_bytes) ]_vars

C2_Witness ==
    /\ pc = "outer"
    /\ file_counter >= 1
    /\ max_file_size_bytes >= 1
    /\ current_size < total_size_bytes
    /\ OnDisk(file_counter - 1) >= max_file_size_bytes

\* C3 as stated: at the end of a run every output file except possibly the
\* last has an on-disk size <= max_file_size_bytes.
C3_Original ==
    pc = "done" =>
        \A i \in 0..(file_counter - 2) : OnDisk(i) <= max_file_size_bytes

\* C3, amended: at the end of a run every output file except possibly the last
\* has an on-disk size >= max_file_size_bytes (a file is left only once its
\* measured size has reached the ceiling, so the last round may overshoot it).
C3_ClosedFilesReachCeiling ==
    pc = "done" =>
        \A i \in 0..(file_counter - 2) :
            i \in DOMAIN files /\ OnDisk(i) >= max_file_size_bytes

C3_Witness ==
    /\ pc = "done"
    /\ file_counter >= 2
    /\ OnDisk(0) > max_file_size_bytes
    /\ OnDisk(file_counter - 1) < max_file_size_bytes

\* C4 as stated: a run with byte target T and per-file ceiling M produces at
\* least ceil(T / M) output files, for any number of workers and chunk_size.
C4_Original ==
    (pc = "done" /\ max_file_size_bytes >= 1) =>
        OutputFiles * max_file_size_bytes >= total_size_bytes

\* C4, amended: the run produces at least ceil(T / M) output files when the
\* bytes one round adds to the running total (workers * chunk_size *
\* avg_document_size) divide M and no written document is shorter than
\* avg_document_size.
C4_FileCount ==
    (/\ pc = "done"
     /\ max_file_size_bytes >= 1
     /\ max_file_size_bytes % RoundEstimate = 0
     /\ ~undersized) =>
        OutputFiles * max_file_size_bytes >= total_size_bytes

C4_Witness ==
    /\ pc = "done"
    /\ max_file_size_bytes >= 2
    /\ max_file_size_bytes % RoundEstimate = 0
    /\ ~undersized
    /\ OutputFiles >= 2
    /\ TotalOnDisk > current_size

\* C5 as stated: when a run terminates the sum of the on-disk sizes of all
\* output files is >= total_size_bytes, for every sequence of document sizes.
C5_Original == pc = "done" => TotalOnDisk >= total_size_bytes

\* C5, amended: when a run terminates the sum of the on-disk sizes of all
\* output files is >= total_size_bytes provided no written document is shorter
\* than the sampled avg_document_size.
C5_OnDiskTotal == (pc = "done" /\ ~undersized) => TotalOnDisk >= total_size_bytes

C5_Witness ==
    /\ pc = "done"
    /\ ~undersized
    /\ total_size_bytes >= 2
    /\ docs_written >= 2
    /\ TotalOnDisk >= total_size_bytes

\* C6: every append to an output file is made by the coordinating path, one
\* line of the chunk under the write cursor at a time, into the current file,
\* and only after every worker task of the round has finished.
C6_SingleWriter ==
    [][files' # files =>
         /\ pc = "write"
         /\ \A w \in Workers : futures[w] = "finished"
         /\ wi \in 1..Len(results)
         /\ di \in 1..Len(results[wi])
         /\ results[wi] = chunks[wi]
         /\ \/ /\ results[wi][di] # Unserializable
               /\ OnDisk(file_counter)' = OnDisk(file_counter) + results[wi][di]
               /\ wi' = wi /\ di' = di + 1
            \/ /\ results[wi][di] = Unserializable
               /\ OnDisk(file_counter)' = OnDisk(file_counter)
         /\ \A i \in DOMAIN files : files'[i] = files[i] \/ i = file_counter
         /\ DOMAIN files' \subseteq (DOMAIN files) \cup {file_counter} ]_vars

C6_Witness ==
    /\ pc = "write"
    /\ workers = 2
    /\ wi = 2
    /\ di = 2
    /\ OnDisk(file_counter) >= 3

\* C7: once a worker task of the round has failed, no chunk of the round is
\* appended or counted, the call ends by raising, and nothing is written
\* after that.
C7_WorkerFailureAborts ==
    /\ [][ /\ ((pc = "gather" /\ \E w \in Workers : futures[w] = "error") =>
                 /\ pc' \in {"gather", "raised"}
                 /\ UNCHANGED <<files, docs_written, current_size>>)
           /\ (pc = "raised" => UNCHANGED <<pc, files, docs_written, current_size>>) ]_vars
    /\ (pc = "gather" /\ \E w \in Workers : futures[w] = "error")
          ~> (pc = "raised" /\ error = "worker")

C7_Witness ==
    /\ pc = "raised"
    /\ error = "worker"
    /\ docs_written > 0
    /\ \E w \in Workers : futures[w] = "finished" /\ chunks[w] # << >>

\* the document under the write cursor cannot be serialised
CursorUnserializable ==
    /\ pc = "write"
    /\ wi \in 1..Len(results)
    /\ di \in 1..Len(results[wi])
    /\ results[wi][di] = Unserializable

\* C8: when serialising the k-th document of a chunk raises, the lines
\* appended before it stay in the file, no output file is deleted or
\* truncated (in that step or any other), and the error leaves the call.
C8_PartialWriteStays ==
    [][ /\ \A i \in DOMAIN files : i \in DOMAIN files' /\ files'[i] >= files[i]
        /\ (CursorUnserializable =>
              /\ pc' = "raised"
              /\ error' = "serialize"
              /\ \A i \in DOMAIN files : files'[i] = files[i])
        /\ (pc = "raised" => pc' = "raised" /\ files' = files) ]_vars

C8_Witness ==
    /\ pc = "raised"
    /\ error = "serialize"
    /\ di >= 2
    /\ results[wi][di] = Unserializable
    /\ OnDisk(file_counter) >= di - 1

\* windows have been computed by generate_windows
WindowsProduced ==
    \/ ts_pc \in {"verify", "returned"}
    \/ ts_pc = "raised" /\ ts_error # "ConfigError"

\* C9 as stated: generate_windows returns windows only when the grid at the
\* finally chosen frequency has at least the buffered expected document count.
C9_ReturnsOnlyWithLargeGrid ==
    ts_pc = "returned" => Len(datetimeindex) >= ExpectedNumberOfDocsWithBuffer

\* C10: the windows are in ascending order and pairwise disjoint, each
\* window's end is strictly before the next window's start, and every
\* timestamp of the grid lies in exactly one window.
C10_WindowsPartitionGrid ==
    WindowsProduced =>
        /\ \A k \in 1..Len(datetime_windows) :
               datetime_windows[k][1] <= datetime_windows[k][2]
        /\ \A k \in 1..(Len(datetime_windows) - 1) :
               datetime_windows[k][2] < datetime_windows[k + 1][1]
        /\ \A j \in 1..Len(datetimeindex) :
               Cardinality({k \in 1..Len(datetime_windows) :
                              /\ datetime_windows[k][1] <= datetimeindex[j]
                              /\ datetimeindex[j] <= datetime_windows[k][2]}) = 1

C10_Witness ==
    /\ ts_pc = "returned"
    /\ Len(datetime_windows) >= 3
    /\ Len(datetimeindex) % docs_per_chunk # 0
    /\ docs_per_chunk >= 2

\* grid timestamps that lie in window k
GridInWindow(k) ==
    {j \in 1..Len(datetimeindex) :
        /\ datetime_windows[k][1] <= datetimeindex[j]
        /\ datetimeindex[j] <= datetime_windows[k][2]}

\* C11: for a grid of n timestamps and docs_per_chunk = c the windows are
\* exactly ceil(n / c), each covering c consecutive grid timestamps except
\* the last, which covers the rest.
C11_WindowCount ==
    WindowsProduced =>
        LET n == Len(datetimeindex)
            c == docs_per_chunk
            m == Len(datetime_windows)
        IN /\ m * c >= n
           /\ (m - 1) * c < n \/ m = 0
           /\ \A k \in 1..m :
                 GridInWindow(k) =
                     {j \in 1..n : (k - 1) * c < j /\ j <= k * c}

C11_Witness ==
    /\ ts_pc = "returned"
    /\ docs_per_chunk >= 2
    /\ Len(datetime_windows) >= 2
    /\ Len(datetimeindex) = Len(datetime_windows) * docs_per_chunk

\* C12 as stated: windows are returned only if the first window, re-expanded
\* at the chosen frequency, has exactly docs_per_chunk timestamps, and in
\* every other case (a shorter grid, an empty grid) the call fails with the
\* partition-consistency error (SystemSetupError).
C12_FirstPairChecked ==
    /\ (ts_pc = "returned" => LengthOfFirstPair = docs_per_chunk)
    /\ ((ts_pc = "raised" /\ ts_error # "ConfigError") =>
           ts_error = "SystemSetupError")

AvailableFrequencySet ==
    {AVAILABLE_FREQUENCIES[i] : i \in 1..Len(AVAILABLE_FREQUENCIES)}

ValidFormatSet ==
    {VALID_DATETIMESTAMPS_FORMATS[i] : i \in 1..Len(VALID_DATETIMESTAMPS_FORMATS)}

\* C13: the constructor and generate_datetimestamps_from_window raise
\* ConfigError exactly for a frequency outside AVAILABLE_FREQUENCIES or a
\* format outside VALID_DATETIMESTAMPS_FORMATS, and then no grid, window or
\* timestamp has been built.
C13_RejectsOutsideAllowLists ==
    /\ (ts_pc # "unconstructed" =>
          /\ (ts_pc = "rejected") <=>
                (frequency \notin AvailableFrequencySet \/ format \notin ValidFormatSet)
          /\ (ts_pc = "rejected" =>
                /\ ts_error = "ConfigError"
                /\ datetimeindex = << >>
                /\ datetime_windows = << >>))
    /\ (gen_pc # "idle" =>
          /\ (gen_pc = "raised") <=>
                (gen_frequency \notin AvailableFrequencySet \/ gen_format \notin ValidFormatSet)
          /\ (gen_pc = "raised" =>
                /\ gen_error = "ConfigError"
                /\ generated_datetimestamps = << >>))

C13_Witness ==
    /\ gen_pc = "raised"
    /\ gen_format = "%Y"
    /\ gen_frequency \in AvailableFrequencySet
    /\ format = "%Y-%m-%dT%H:%M:%S"

\* ---- MappingParser and MappingSyntheticDataGenerator claims
\* the fields the parser reads from a document
ParserProperties(data) ==
    IF "properties" \in DOMAIN data THEN data.properties
    ELSE IF /\ "index_patterns" \in DOMAIN data
            /\ "mappings" \in DOMAIN data
            /\ "properties" \in DOMAIN data.mappings
    THEN data.mappings.properties
    ELSE EmptyDict

\* some field without sub-fields, at any depth, declares a type that is no
\* key of TYPE_MAPPING
RECURSIVE DeclaresUnknownType(_)
DeclaresUnknownType(properties) ==
    \E field_name \in DOMAIN properties :
        LET field_info == properties[field_name] IN
        IF "properties" \in DOMAIN field_info
        THEN DeclaresUnknownType(field_info.properties)
        ELSE "type" \in DOMAIN field_info /\ field_info.type \notin DOMAIN TYPE_MAPPING

\* every field without sub-fields, at any depth, declares a type that is a
\* key of TYPE_MAPPING
RECURSIVE TypesRecognized(_)
TypesRecognized(properties) ==
    \A field_name \in DOMAIN properties :
        LET field_info == properties[field_name] IN
        IF "properties" \in DOMAIN field_info
        THEN TypesRecognized(field_info.properties)
        ELSE "type" \in DOMAIN field_info /\ field_info.type \in DOMAIN TYPE_MAPPING

ParseReturned == m_pc \in {"parsed", "reparsed", "reraised"}

\* C14: whenever a field at any depth declares an engine type that is no key
\* of TYPE_MAPPING, MappingParser.parse raises and returns no blueprint.
C14_UnknownTypeRejected ==
    (m_pc # "input" /\ DeclaresUnknownType(ParserProperties(input_data)))
        => (m_pc = "raised" /\ parsed = EmptyDict)

\* every generator leaf of the blueprint has a kind of the registry
RECURSIVE LeavesRegistered(_)
LeavesRegistered(blueprint) ==
    \A field_name \in DOMAIN blueprint :
        LET entry == blueprint[field_name] IN
        IF "data_generator_type" \in DOMAIN entry
        THEN entry.data_generator_type \in GeneratorTypes
        ELSE LeavesRegistered(entry)

\* C15: every generator leaf of a blueprint MappingParser.parse returns has a
\* data_generator_type that is a member of GeneratorTypes.
C15_LeafKindsRegistered == ParseReturned => LeavesRegistered(parsed)

\* some field the generator walks, at any depth, declares a type that has no
\* entry in type_generators
RECURSIVE HasTypeWithoutGenerator(_)
HasTypeWithoutGenerator(properties) ==
    \E field_name \in DOMAIN properties :
        LET field_def == properties[field_name]
            field_type == GetOr(field_def, "type", "None")
        IN
        IF field_type \in {"object", "nested"} /\ "properties" \in DOMAIN field_def
        THEN HasTypeWithoutGenerator(field_def.properties)
        ELSE "type" \in DOMAIN field_def /\ field_type \notin DOMAIN type_generators

\* C16: when a field's type has no entry in type_generators,
\* transform_mapping_to_generators raises and no document is generated.
C16_UnknownKindFailsHydration ==
    (/\ h_pc # "input"
     /\ ~TransformRaises(input_data)
     /\ mapping_config = EmptyDict
     /\ HasTypeWithoutGenerator(SelectProperties(input_data)))
        => (h_pc = "raised" /\ document = EmptyDict)

\* the document has a top-level 'properties' key, or an 'index_patterns' key
\* together with 'mappings'
HasMappingShape(data) ==
    \/ "properties" \in DOMAIN data
    \/ "index_patterns" \in DOMAIN data /\ "mappings" \in DOMAIN data

\* C17: MappingParser.parse raises ValueError and returns no blueprint for
\* every input that has neither a top-level 'properties' key nor an
\* 'index_patterns' key with 'mappings', and returns a blueprint for every
\* input of one of those shapes whose field types are recognized.
C17_ShapeDecidesParse ==
    m_pc # "input" =>
        /\ ~HasMappingShape(input_data) =>
               (m_pc = "raised" /\ parse_error = "ValueError" /\ parsed = EmptyDict)
        /\ (HasMappingShape(input_data) /\ TypesRecognized(ParserProperties(input_data)))
               => ParseReturned

\* C19: for every valid mapping input, parsing the reloaded blueprint again
\* succeeds and gives the same blueprint.
C19_ReparseIdempotent ==
    (/\ m_pc \in {"reparsed", "reraised"}
     /\ TypesRecognized(ParserProperties(input_data)))
        => (m_pc = "reparsed" /\ reparsed = parsed)

\* ---- TemplateDocumentParser claims
\* the text between the parentheses is empty or a comma-separated list of
\* key=value pairs
WellFormedParams(params_str) ==
    \/ params_str = << >>
    \/ /\ \A i \in 1..Len(params_str) : params_str[i] \notin {"(", ")", "{", "}"}
       /\ LET pieces == Split(params_str, ",") IN
          \A i \in 1..Len(pieces) : Len(Split(pieces[i], "=")) = 2

\* the value is exactly {{NAME(key=value,...)}}
WellFormedToken(value) ==
    LET n == WordRun(value, 3) IN
    /\ StartsWith(value, <<"{", "{">>)
    /\ EndsWith(value, <<")", "}", "}">>)
    /\ n >= 1
    /\ 3 + n <= Len(value) - 3
    /\ value[3 + n] = "("
    /\ WellFormedParams(SubSeq(value, 4 + n, Len(value) - 3))

CitesToken(e) == e = "ValueError(Invalid template_data_generator: token)"

\* C18: for every value that starts with '{{' and ends with '}}' and is not
\* exactly {{NAME(key=value,...)}}, parse raises an error that cites the
\* token.
C18_MalformedTokenRejected ==
    (/\ tp_pc # "input"
     /\ IsPlaceholder(template_value)
     /\ ~WellFormedToken(template_value))
        => (tp_pc = "raised" /\ CitesToken(template_error))

\* ---- range generator claims
\* C20: every value a range generator returns is a {gte, lte} pair with
\* gte <= lte.
C20_RangeOrdered ==
    r_pc = "returned" =>
        /\ DOMAIN range_value = {"gte", "lte"}
        /\ ~range_value.gte.none
        /\ ~range_value.lte.none
        /\ range_value.gte.n <= range_value.lte.n

C27_DefaultsUntouched ==
    s_pc = "returned" =>
        /\ default_generation_settings = DEFAULT_GENERATION_SETTINGS
        /\ \A k \in DOMAIN DEFAULT_GENERATION_SETTINGS :
              LET user_generation_settings == GetOr(input_config, "settings", EmptyDict) IN
              (k \notin DOMAIN user_generation_settings \/ user_generation_settings[k].none)
                  => generation_settings[k] = DEFAULT_GENERATION_SETTINGS[k]


\* C21: for all bounds min <= max, generate_integer(field, min=min, max=max)
\* and generate_float(field, min=min, max=max) return a value x with
\* min <= x <= max.
C21_WithinBounds ==
    (/\ v_pc = "called"
     /\ DOMAIN v_call.params = {"min", "max"}
     /\ v_call.params.min <= v_call.params.max)
    => /\ v_error = "none"
       /\ v_call.params.min <= v_value.n
       /\ v_value.n <= v_call.params.max

\* the binding the config asks for: a field named in field_overrides (by its
\* name, or by its dotted path inside an object or nested field) has the
\* override's generator and parameters, every other field its type's
\* generator with the type's generator_overrides parameters
RECURSIVE BoundAsConfigured(_, _, _, _)
BoundAsConfigured(generators, properties, prefix, config) ==
    \A field_name \in DOMAIN properties :
        LET field_def == properties[field_name]
            path == prefix \o field_name
            field_overrides == GetOr(config, "field_overrides", EmptyDict)
            generator_overrides == GetOr(config, "generator_overrides", EmptyDict)
        IN
        IF "properties" \in DOMAIN field_def
        THEN BoundAsConfigured(generators[field_name].nested, field_def.properties,
                               path \o ".", config)
        ELSE IF path \in DOMAIN field_overrides
        THEN /\ generators[field_name].generator = field_overrides[path].generator
             /\ generators[field_name].params = field_overrides[path].params
        ELSE /\ generators[field_name].generator = type_generators[field_def.type]
             /\ generators[field_name].params =
                    GetOr(generator_overrides, field_def.type, EmptyDict)

\* C22: with a config holding generator_overrides and field_overrides,
\* transform_mapping_to_generators binds each field named in field_overrides
\* (top-level name or dotted path) to the override's generator and params and
\* every other field to its type's generator with the type's
\* generator_overrides params; the float override min=0, max=1 yields values
\* within that range and the keyword override with one choice only that choice.
C22_OverridesApplied ==
    LET config == GeneratorConfig(v_config) IN
    (/\ v_pc \in {"hydrated", "generated"}
     /\ {"generator_overrides", "field_overrides"} \subseteq DOMAIN config)
    => /\ BoundAsConfigured(v_generators, SelectProperties(SampleMapping), "", config)
       /\ v_pc = "generated" =>
            /\ v_document.price.n \in
                   config.generator_overrides.float.min ..
                   config.generator_overrides.float.max
            /\ v_document.tags.term = "monet"
            /\ v_document.author_profile.email.term = "marktwain@gmail.com"
            /\ \A i \in DOMAIN v_document.other_works.items :
                   v_document.other_works.items[i].title.term = "Mark S"


\* C23: chunk generation is deterministic in its seed: two invocations of a
\* chunk worker with the same schema, chunk_size and explicit seed return
\* identical document lists, for generate_data_chunk and for
\* generate_documents_from_worker.
C23_SameSeedSameDocuments ==
    (Len(k_results) = 2 /\ ~k_seed.none) => k_results[1] = k_results[2]

\* C26: in every round each worker's task is given the seed generated for it
\* from the worker id and the time, and that seed differs from the seed of
\* every other worker of the round and from the worker's seed in every
\* earlier round.
C26_SeedsDistinctAndPassed ==
    q_pc = "gathered" =>
        \A w \in DOMAIN q_submitted :
            /\ q_submitted[w] = Some(q_seeds[w])
            /\ \E timestamp \in 1..q_clock : q_seeds[w] = Md5Prefix(w, timestamp)
            /\ \A v \in DOMAIN q_submitted \ {w} : q_submitted[v] # q_submitted[w]
            /\ \A r \in DOMAIN q_history :
                   w \in DOMAIN q_history[r] => q_history[r][w] # q_submitted[w]


\* the names of the result entries of extracted_indices
ExtractedNames == {extracted_indices[i].name : i \in DOMAIN extracted_indices}

FailedNames == {failed_indices[i] : i \in DOMAIN failed_indices}

\* C28: after extract_indices returns without raising, each configured index
\* is represented in extracted_indices or listed in failed_indices, and a
\* cluster error on one index does not prevent the extraction of the index
\* that follows it.
C28_EveryIndexAccounted ==
    /\ i_pc = "returned" =>
          \A k \in DOMAIN i_indices :
              i_indices[k] \in ExtractedNames \cup FailedNames
    /\ i_pc \in {"returned", "raised"} =>
          \A k \in DOMAIN i_indices :
              (/\ k > 1
               /\ i_cluster[i_indices[k - 1]] = "unavailable"
               /\ \A j \in 1..(k - 2) : i_cluster[i_indices[j]] = "found"
               /\ i_cluster[i_indices[k]] = "found"
               /\ IsValidIndex(i_indices[k]))
              => i_indices[k] \in ExtractedNames


\* the offsets a range covers, capped at the number of documents asked for
Covered(range) ==
    {offset \in 0..(c_number_of_docs - 1) :
        range.start_doc <= offset /\ offset < range.end_doc}

\* C29: in concurrent mode, for every number_of_docs >= 1 and threads >= 1,
\* dump_documents does not fail, its ranges cover every document offset of
\* [0, number_of_docs) exactly once, merging starts only after every range
\* task has finished, and the merged corpus file holds exactly the
\* number_of_docs documents in range order.
C29_ConcurrentDumpComplete ==
    /\ [](c_concurrent =>
            /\ c_error = "none"
            /\ c_pc \in {"dumping", "merged"} =>
                  \A offset \in 0..(c_number_of_docs - 1) :
                      Cardinality({r \in DOMAIN c_ranges :
                                      offset \in Covered(c_ranges[r])}) = 1
            /\ c_pc = "merged" =>
                  c_merged = [i \in 1..c_number_of_docs |-> i - 1])
    /\ [][(c_concurrent /\ c_pc # "merged" /\ c_pc' = "merged")
            => \A r \in DOMAIN c_tasks : c_tasks[r] = "finished"]_vars


\* what extract_documents has left behind for a number of documents to extract
ExtractedExactly(number) ==
    IF number <= 0
    THEN /\ d_written = {}
         /\ d_result = None
    ELSE /\ Len(d_full_corpus) = number
         /\ Len(d_test_corpus) = (IF number <= TestModeDocCount
                                  THEN number ELSE TestModeDocCount)
         /\ d_result = Some(number)

====
